---------------------------- MODULE Spec2Model ----------------------------
(***************************************************************************)
(* Token lifecycle and claim-based authorization engine of the p6m CLI:    *)
(* the Claims model (auth/token_repository.rs, Claims), the on-disk token  *)
(* store and the orchestrator (TokenRepository), and the device-flow       *)
(* client (auth/openid.rs).                                                *)
(*                                                                         *)
(* Rust's Option<T> is a sequence of length at most one: None is <<>> and  *)
(* Some(v) is <<v>>.  A Vec<String> is a sequence of strings.              *)
(***************************************************************************)
EXTENDS Integers, Sequences, FiniteSets, TLC

VARIABLES
    \* --- Claims::assert / Claims::merge on in-memory claim sets
    self_claims,        \* `self` of Claims::assert (the actual claims)
    desired,            \* `desired_claims` argument of Claims::assert
    assert_result,      \* what Claims::assert returned; NotRun before the call
    \* --- the file system under the configuration root
    fs,                 \* directory path -> (token file name -> Option<content>)
    \* --- TokenRepository fields
    auth_dir,           \* path of the directory holding the three token files
    organization_id,    \* Option<String>
    force,              \* bool
    scopes,             \* the sorted, deduplicated Vec<String>, as a set
    desired_claims,     \* Claims accumulated by with_scope
    \* --- environment
    tty,                \* atty::is(Stream::Stdin)
    now,                \* Utc::now(), seconds
    \* --- execution of the async orchestrator
    stack,              \* call stack, innermost frame last: [fn, pc]
    rv,                 \* Result returned by the frame that finished last
    access_token_response, \* the `access_token_response` local of try_login/try_refresh
    polls,              \* polls of the token endpoint made by the running device flow
    raw_response,       \* send(): the interval member of the device-code response body
    device_code_response, \* Option<DeviceCodeResponse>: the body, once deserialized
    slept,              \* seconds slept before each poll of the running device flow
    \* --- the process (main)
    result,             \* `result` of main: what the command handler returned
    stderr,             \* the lines the process has printed through error!
    exit_status,        \* Option<i32>: the exit status once the process has ended
    writers,            \* the invocations that are in write_tokens: [tokens, written]
    \* --- history of the running top-level call (observation only)
    call,               \* [op, force, sr, arg]: the top-level call and what it saw
    pre,                \* fs as it was when the top-level call started
    log                 \* events of the top-level call, in order: [fn, ev]

vars == << self_claims, desired, assert_result, fs, auth_dir, organization_id,
           force, scopes, desired_claims, tty, now, stack, rv,
           access_token_response, polls, raw_response, device_code_response,
           slept, result, stderr, exit_status, writers, call, pre, log >>

claimVars == << self_claims, desired, assert_result >>
repoVars  == << auth_dir, organization_id, force, scopes, desired_claims >>
execVars  == << stack, rv, access_token_response, polls >>
flowVars  == << raw_response, device_code_response, slept >>
procVars  == << result, stderr, exit_status, writers >>
histVars  == << call, pre, log >>

-----------------------------------------------------------------------------
(* Option<T> *)

None == << >>
Some(v) == << v >>
is_some(o) == Len(o) = 1
is_none(o) == Len(o) = 0
unwrap(o) == o[1]

-----------------------------------------------------------------------------
(* Bounds of the model *)

\* longest Vec<String> drawn for a permissions / roles claim
MaxArrayLen == 2

\* longest causal chain (context strings over a root cause) of an error a
\* command handler returns
MaxChain == 3

\* most polls of the token endpoint in one device flow: the provider's answer
\* to the last of them is not authorization_pending
MaxPolls == 2

-----------------------------------------------------------------------------
(* Claims *)

\* The fields of struct Claims, by their Rust names.
ClaimFields == { "exp", "scope", "email", "login_kubernetes", "orgs", "org",
                 "permissions", "roles" }

\* Fields that serialize to a JSON array (Option<Vec<String>>).
ArrayFields == { "permissions", "roles" }

\* Fields that serialize to a JSON string or number.
ScalarFields == { "exp", "scope", "email", "login_kubernetes", "org" }

\* The order in which serde_json's Map (a BTreeMap keyed by the serialized
\* names "email", "exp", "https://p6m.dev/v1/org", ".../orgs",
\* ".../permission", ".../permission/login/kubernetes", ".../roles", "scope")
\* iterates over the fields.
KeyOrder == << "email", "exp", "org", "orgs", "permissions",
               "login_kubernetes", "roles", "scope" >>

\* Claims::default(): every field None.
Claims_default == [ f \in ClaimFields |-> None ]

\* Result<()> of Claims::assert.  kind is "" for Ok(()); otherwise it tells
\* which anyhow! message was built and `field` is the {key} printed in it.
Ok == [ ok |-> TRUE, kind |-> "", field |-> "" ]
Err(kind, key) == [ ok |-> FALSE, kind |-> kind, field |-> key ]
NotRun == [ ok |-> FALSE, kind |-> "not run", field |-> "" ]

\* is_some_and / slice patterns of the array arm, one operator per match arm.

\* Mutant: `[] => Ok(())` without the `if act_arr.is_empty()` guard.
array_empty_accepts_any(key, act_arr) == Ok

\* [] if act_arr.is_empty() => Ok(()),  [] => Err("expected empty array")
array_empty(key, act_arr) ==
    IF act_arr = << >> THEN Ok
    ELSE Err("mismatch: expected empty array", key)

\* Mutant: the wildcard arm without the is_empty() test.
array_wildcard_accepts_empty(key, act_arr) == Ok

\* [Value::String(s)] if s == "*" => non-empty actual array required
array_wildcard(key, act_arr) ==
    IF act_arr = << >>
    THEN Err("mismatch: expected non-empty array due to wildcard", key)
    ELSE Ok

\* Mutant: arrays compared as sets of elements.
array_exact_unordered(key, exp_arr, act_arr) ==
    IF /\ Len(exp_arr) = Len(act_arr)
       /\ { exp_arr[i] : i \in 1..Len(exp_arr) } = { act_arr[i] : i \in 1..Len(act_arr) }
    THEN Ok
    ELSE Err("mismatch", key)

\* _ if exp_arr == act_arr => Ok(()),  _ => Err("expected .., found ..")
array_exact(key, exp_arr, act_arr) ==
    IF exp_arr = act_arr THEN Ok ELSE Err("mismatch", key)

\* Mutant: a present value of any content satisfies a scalar.
non_array_presence_only(key, desired_value, self_value) == Ok

\* _ if desired_value == self_value => Ok(()),  _ => Err("expected .., found ..")
non_array(key, desired_value, self_value) ==
    IF desired_value = self_value THEN Ok ELSE Err("mismatch", key)

\* Mutant: a key that self_map does not hold is passed over.
missing_field_passes(key) == Ok

\* self_map.get(key).ok_or_else(|| anyhow!("Missing field: {}", key))?
missing_field(key) == Err("Missing field", key)

\* The closure given to try_for_each in Claims::assert: one non-null desired
\* value against self_map.get(key).  self_value is None when the key is not in
\* self_map (a None field is skipped by skip_serializing_if).  Desired and
\* actual are both Claims, so a field is an array on both sides or on neither.
check_field(key, desired_value, self_value) ==
    IF is_none(self_value) THEN missing_field(key)
    ELSE IF key \in ArrayFields
         THEN IF desired_value = << >>
              THEN array_empty(key, unwrap(self_value))
              ELSE IF desired_value = << "*" >>
                   THEN array_wildcard(key, unwrap(self_value))
                   ELSE array_exact(key, desired_value, unwrap(self_value))
         ELSE non_array(key, desired_value, unwrap(self_value))

\* desired_map.iter().filter(non-null).try_for_each(...): the first Err ends
\* the iteration and is the result.
RECURSIVE try_for_each(_, _, _)
try_for_each(keys, slf, des) ==
    IF keys = << >> THEN Ok
    ELSE LET key == Head(keys) IN
         IF is_none(des[key]) THEN try_for_each(Tail(keys), slf, des)
         ELSE LET r == check_field(key, unwrap(des[key]), slf[key]) IN
              IF r.ok THEN try_for_each(Tail(keys), slf, des) ELSE r

\* Claims::assert(&self, desired_claims)
Claims_assert(slf, des) == try_for_each(KeyOrder, slf, des)

\* The key each field is serialized under (#[serde(rename = ..)]).
JsonName(f) ==
    CASE f = "exp"              -> "exp"
      [] f = "scope"            -> "scope"
      [] f = "email"            -> "email"
      [] f = "login_kubernetes" -> "https://p6m.dev/v1/permission/login/kubernetes"
      [] f = "orgs"             -> "https://p6m.dev/v1/orgs"
      [] f = "org"              -> "https://p6m.dev/v1/org"
      [] f = "permissions"      -> "https://p6m.dev/v1/permission"
      [] f = "roles"            -> "https://p6m.dev/v1/roles"

\* serde_json::to_value(claims): a JSON object holding a key for every field
\* that is Some (skip_serializing_if = "Option::is_none").
to_value(c) ==
    [ k \in { JsonName(f) : f \in { g \in ClaimFields : is_some(c[g]) } } |->
        unwrap(c[CHOOSE f \in ClaimFields : JsonName(f) = k]) ]

\* serde_json::from_value::<Claims>(object): a key that is not there gives None.
from_value(object) ==
    [ f \in ClaimFields |->
        IF JsonName(f) \in DOMAIN object THEN Some(object[JsonName(f)]) ELSE None ]

\* for (key, incoming_value) in incoming_map { if !incoming_value.is_null()
\*     { existing_map.insert(key, incoming_value) } }: no value of the model's
\* objects is null, a None field having no key.
insert_all(existing_map, incoming_map) ==
    [ k \in DOMAIN existing_map \cup DOMAIN incoming_map |->
        IF k \in DOMAIN incoming_map THEN incoming_map[k] ELSE existing_map[k] ]

\* Mutant: an incoming array is appended to the existing one.
Claims_merge_appends(existing, incoming) ==
    [ f \in ClaimFields |->
        IF is_none(incoming[f]) THEN existing[f]
        ELSE IF f \in ArrayFields /\ is_some(existing[f])
             THEN Some(unwrap(existing[f]) \o unwrap(incoming[f]))
             ELSE incoming[f] ]

\* Claims::merge(&mut self, from): both sides serialized, every incoming key
\* inserted over the existing object, and the object deserialized.
Claims_merge(existing, incoming) ==
    from_value(insert_all(to_value(existing), to_value(incoming)))

-----------------------------------------------------------------------------
(* Tokens and the token files *)

\* Duration::hours(1) of should_refresh, in seconds
Hour == 3600

\* exp of the tokens that expire soon, and of those that expire late
ExpT == 7200
ExpFar == 100000

\* enum AuthToken and its Display strings, the file names.
TokenKinds == { "ACCESS_TOKEN", "ID_TOKEN", "REFRESH_TOKEN" }

\* The token strings of the model.  A JWT is named by what its claims segment
\* decodes to; "" and "garbage" are not JWTs, and refresh tokens are opaque.
AccessJwts == { "at.T", "at.far", "at.noexp" }
IdJwts == { "id.k8s.T", "id.k8s.far", "id.plain.far" }
RefreshTokens == { "rt.1", "rt.2" }

\* Organization memberships (BTreeMap<String, String>, id -> display name) of
\* the ID tokens of the model; in the second, one organization's display name
\* is another's id.
TwoOrgs == [ o \in { "org1", "org2" } |-> IF o = "org1" THEN "Org One" ELSE "Org Two" ]
ClashingOrgs == [ o \in { "org1", "org2" } |-> IF o = "org1" THEN "org2" ELSE "Org Two" ]

\* raw::split_token + raw::decode_json_token_slice + from_value::<Claims>:
\* the claims a token string decodes to, None when it is no well-formed JWT.
decode(token) ==
    CASE token = "at.T"         -> Some([ Claims_default EXCEPT !.exp = Some(ExpT),
                                            !.scope = Some("openid email") ])
      [] token = "at.far"       -> Some([ Claims_default EXCEPT !.exp = Some(ExpFar),
                                            !.scope = Some("openid email") ])
      [] token = "at.noexp"     -> Some([ Claims_default EXCEPT
                                            !.scope = Some("openid email") ])
      [] token = "id.k8s.T"     -> Some([ Claims_default EXCEPT !.exp = Some(ExpT),
                                            !.email = Some("actual@example.com"),
                                            !.login_kubernetes = Some("true") ])
      [] token = "id.k8s.far"   -> Some([ Claims_default EXCEPT !.exp = Some(ExpFar),
                                            !.email = Some("actual@example.com"),
                                            !.login_kubernetes = Some("true") ])
      [] token = "id.plain.far" -> Some([ Claims_default EXCEPT !.exp = Some(ExpFar),
                                            !.email = Some("actual@example.com") ])
      [] token = "id.org1.far"  -> Some([ Claims_default EXCEPT !.exp = Some(ExpFar),
                                            !.email = Some("actual@example.com"),
                                            !.org = Some("org1"),
                                            !.orgs = Some(TwoOrgs) ])
      [] token = "id.orgs.far"  -> Some([ Claims_default EXCEPT !.exp = Some(ExpFar),
                                            !.email = Some("actual@example.com"),
                                            !.orgs = Some(TwoOrgs) ])
      [] token = "id.clash.far" -> Some([ Claims_default EXCEPT !.exp = Some(ExpFar),
                                            !.email = Some("actual@example.com"),
                                            !.orgs = Some(ClashingOrgs) ])
      [] OTHER -> None

\* impl Into<Claims> for Option<String>: a missing or undecodable token gives
\* Claims::default().
into_claims(token_opt) ==
    IF is_none(token_opt) THEN Claims_default
    ELSE IF is_none(decode(unwrap(token_opt))) THEN Claims_default
         ELSE unwrap(decode(unwrap(token_opt)))

\* The directory new() is given: <config_root>/auth.
Root == << "auth" >>

\* An existing directory without token files.
EmptyDir == [ k \in TokenKinds |-> None ]

\* p is d or lies below d.
IsPrefix(d, p) == Len(d) <= Len(p) /\ SubSeq(p, 1, Len(d)) = d

\* TokenRepository::read_token: Ok(None) when the file does not exist.
read_token(files, dir, token_type) ==
    IF dir \in DOMAIN files THEN files[dir][token_type] ELSE None

\* Result of read_claims and read_expiration.
Fine(v) == [ ok |-> TRUE, val |-> v ]
Failed == [ ok |-> FALSE, val |-> None ]

\* TokenRepository::read_claims: Ok(None) without the file, Err when the file
\* holds no well-formed JWT.
read_claims(files, dir, token_type) ==
    LET t == read_token(files, dir, token_type) IN
    IF is_none(t) THEN Fine(None)
    ELSE IF is_none(decode(unwrap(t))) THEN Failed
         ELSE Fine(decode(unwrap(t)))

\* Mutant: a missing token, or one without exp, never expires.
read_expiration_absent_is_late(files, dir, token_type, clock) ==
    LET c == read_claims(files, dir, token_type) IN
    IF ~c.ok THEN Failed
    ELSE IF is_none(c.val) THEN Fine(clock + Hour + Hour)
         ELSE IF is_none(unwrap(c.val).exp) THEN Fine(clock + Hour + Hour)
              ELSE Fine(unwrap(unwrap(c.val).exp))

\* TokenRepository::read_expiration: the exp claim, and the present moment
\* when there is no token or no exp claim.
read_expiration(files, dir, token_type, clock) ==
    LET c == read_claims(files, dir, token_type) IN
    IF ~c.ok THEN Failed
    ELSE IF is_none(c.val) THEN Fine(clock)
         ELSE IF is_none(unwrap(c.val).exp) THEN Fine(clock)
              ELSE Fine(unwrap(unwrap(c.val).exp))

\* Mutants of will_expire: `>=` for `>`, and the margin forgotten.
will_expire_at_margin(clock, exp) == clock >= exp - Hour
will_expire_no_margin(clock, exp) == clock > exp

\* Utc::now() > read_expiration(..)? - Duration::hours(1)
will_expire(clock, exp) == clock > exp - Hour

\* TokenRepository::should_refresh: Result<bool>
should_refresh(files, dir, clock) ==
    LET id_exp == read_expiration(files, dir, "ID_TOKEN", clock)
        access_exp == read_expiration(files, dir, "ACCESS_TOKEN", clock)
    IN  IF ~id_exp.ok \/ ~access_exp.ok THEN Failed
        ELSE Fine(will_expire(clock, access_exp.val) \/ will_expire(clock, id_exp.val))

\* struct AccessTokenResponse (error_description, which only words the error
\* message, is left out).
Bundle(a, i, r) ==
    [ access_token |-> a, id_token |-> i, refresh_token |-> r, error |-> None ]
NoBundle == Bundle(None, None, None)
ErrorResponse(e) == [ NoBundle EXCEPT !.error = Some(e) ]

\* The AccessTokenResponse field written to each file.
FieldOf(token_type) ==
    CASE token_type = "ACCESS_TOKEN" -> "access_token"
      [] token_type = "ID_TOKEN" -> "id_token"
      [] token_type = "REFRESH_TOKEN" -> "refresh_token"

\* Mutant of write_token: an absent token truncates the file.
write_token_blanks_absent(files, dir, token_type, token) ==
    [ files EXCEPT ![dir][token_type] =
        IF is_some(token) THEN token ELSE Some("") ]

\* TokenRepository::write_token: fs::write only `if let Some(token)`.
write_token(files, dir, token_type, token) ==
    IF is_some(token) THEN [ files EXCEPT ![dir][token_type] = token ]
    ELSE files

\* TokenRepository::write_tokens: access, then id, then refresh.
write_tokens(files, dir, tokens) ==
    write_token(
        write_token(
            write_token(files, dir, "ACCESS_TOKEN", tokens.access_token),
            dir, "ID_TOKEN", tokens.id_token),
        dir, "REFRESH_TOKEN", tokens.refresh_token)

\* TokenRepository::read_tokens: every field Some, a missing file read as "".
unwrap_or_default(o) == IF is_some(o) THEN unwrap(o) ELSE ""
read_tokens(files, dir) ==
    Bundle(Some(unwrap_or_default(read_token(files, dir, "ACCESS_TOKEN"))),
           Some(unwrap_or_default(read_token(files, dir, "ID_TOKEN"))),
           Some(unwrap_or_default(read_token(files, dir, "REFRESH_TOKEN"))))

\* The interval member of a device-code response body, as JSON: a number, or
\* something that is no number; NoBody before any response.
JsonNumber(n) == [ kind |-> "number", n |-> n ]
JsonString == [ kind |-> "string", n |-> 0 ]
NoBody == [ kind |-> "none", n |-> 0 ]

\* serde_json::from_str::<DeviceCodeResponse>(&raw_response): interval is a
\* u32, so a body whose interval is negative or no number is an error (None);
\* the numbers of the model are all below the largest u32.
from_str(body) ==
    IF body.kind = "number" /\ body.n >= 0
    THEN Some([ interval |-> body.n ])
    ELSE None

\* Result<AccessTokenResponse> / Result<&mut Self> of the orchestrator's
\* functions: err is "" for Ok and the failure otherwise.
Success(bundle) == [ ok |-> TRUE, err |-> "", val |-> bundle ]
Failure(e) == [ ok |-> FALSE, err |-> e, val |-> NoBundle ]
NoResult == [ ok |-> FALSE, err |-> "no result", val |-> NoBundle ]

\* What is remembered of a top-level call: the operation, the force flag and
\* the clock when it started, the bundle it was given (write_tokens) and what
\* should_refresh or is_logged_in answered in it (None when neither was asked
\* or should_refresh failed).
Call(op, f, clock, arg) ==
    [ op |-> op, force |-> f, at |-> clock, arg |-> arg, sr |-> None ]
NoCall == Call("", FALSE, 0, NoBundle)

\* TokenRepository::clear: remove_dir_all(auth_dir), create_dir_all(auth_dir).
clear_keeps_files(files, dir) == files

\* Mutant: everything below the configuration root is removed.
clear_whole_root(files, dir) == [ p \in { Root, dir } |-> EmptyDir ]

clear(files, dir) ==
    [ p \in { q \in DOMAIN files : ~IsPrefix(dir, q) } \cup { dir } |->
        IF p = dir THEN EmptyDir ELSE files[p] ]

\* TokenRepository::DEFAULT_SCOPES, split at the blanks
DEFAULT_SCOPES == { "openid", "email", "offline_access", "login:cli" }

\* Mutant: the refresh token file is not looked at.
is_logged_in_without_refresh(files, dir) ==
    ~ ( is_none(read_token(files, dir, "ID_TOKEN"))
        \/ is_none(read_token(files, dir, "ACCESS_TOKEN")) )

\* TokenRepository::is_logged_in
is_logged_in(files, dir) ==
    IF is_none(read_token(files, dir, "ID_TOKEN"))
       \/ is_none(read_token(files, dir, "ACCESS_TOKEN"))
    THEN FALSE
    ELSE is_some(read_token(files, dir, "REFRESH_TOKEN"))

-----------------------------------------------------------------------------
(* Inputs of the claim algebra *)

\* Vec<String> values of at most n elements over a set of strings.
RECURSIVE SeqsUpTo(_, _)
SeqsUpTo(S, n) ==
    IF n = 0 THEN { << >> }
    ELSE LET shorter == SeqsUpTo(S, n - 1) IN
         shorter \cup { Append(s, x) : s \in { t \in shorter : Len(t) = n - 1 }, x \in S }

NoRepeat(s) == \A i, j \in 1..Len(s) : i # j => s[i] # s[j]

RoleNames == { "*", "admin", "user" }

\* The non-null values drawn for each field.
FieldValues(f) ==
    CASE f = "exp"              -> { 1700000000, 1700003600 }
      [] f = "scope"            -> { "openid email", "openid" }
      [] f = "email"            -> { "actual@example.com", "desired@example.com" }
      [] f = "login_kubernetes" -> { "true", "false" }
      [] f = "orgs"             -> { [ o \in {"org1"} |-> "Org One" ],
                                     [ o \in {"org2"} |-> "Org Two" ] }
      [] f = "org"              -> { "org1", "org2" }
      [] f = "permissions"      -> { s \in SeqsUpTo(RoleNames, MaxArrayLen) : NoRepeat(s) }
      [] f = "roles"            -> { s \in SeqsUpTo(RoleNames, MaxArrayLen) : NoRepeat(s) }

\* Claims with field f set to Some(v).
With(c, f, v) == [ c EXCEPT ![f] = Some(v) ]

\* Claim sets with at most two populated fields.
ClaimInputs ==
    LET one == UNION { { With(Claims_default, f, v) : v \in FieldValues(f) }
                       : f \in ClaimFields }
    IN  { Claims_default } \cup one
        \cup UNION { UNION { { With(c, f, v) : v \in FieldValues(f) }
                             : f \in ClaimFields } : c \in one }

-----------------------------------------------------------------------------
(* The specification of the claim algebra: Claims::assert applied to drawn *)
(* claim sets                                                              *)

\* Values of the variables a specification does not use.
IdleFs == << >>
IdleRepo ==
    /\ auth_dir = << >>
    /\ organization_id = None
    /\ force = FALSE
    /\ scopes = { }
    /\ desired_claims = Claims_default
IdleProc ==
    /\ result = << >>
    /\ stderr = << >>
    /\ exit_status = None
    /\ writers = << >>
IdleFlow ==
    /\ raw_response = NoBody
    /\ device_code_response = None
    /\ slept = << >>
IdleExec ==
    /\ stack = << >>
    /\ rv = NoResult
    /\ access_token_response = NoBundle
    /\ polls = 0
    /\ IdleFlow
    /\ IdleProc
IdleHist ==
    /\ call = NoCall
    /\ pre = IdleFs
    /\ log = << >>

InitClaims ==
    /\ self_claims \in ClaimInputs
    /\ desired \in ClaimInputs
    /\ assert_result = NotRun
    /\ fs = IdleFs
    /\ tty = TRUE
    /\ now = 0
    /\ IdleRepo /\ IdleExec /\ IdleHist

\* actual.assert(&desired)
DoAssert ==
    /\ assert_result = NotRun
    /\ assert_result' = Claims_assert(self_claims, desired)
    /\ UNCHANGED << self_claims, desired, fs, tty, flowVars, now, repoVars, execVars, procVars,
                    histVars >>

NextClaims == DoAssert

SpecClaims == InitClaims /\ [][NextClaims]_vars

-----------------------------------------------------------------------------
(* Claims::assert, field by field *)

Asserted == assert_result # NotRun

\* f is the only field the desired set populates.
OnlyDesired(f) == \A g \in ClaimFields \ {f} : is_none(desired[g])

\* Every populated desired field other than f holds the very value the actual
\* set holds, so no field but f can be the one the assertion stops at.
OthersMatched(f) ==
    \A g \in ClaimFields \ {f} : is_some(desired[g]) => self_claims[g] = desired[g]

\* C7: a desired array field that is the empty array is satisfied exactly when
\* the actual field is the empty array too: any other actual value (a non-empty
\* array, or no value) makes the assertion fail; an empty actual array is never
\* the field the assertion fails on, and with no other desired field the
\* assertion passes exactly when the actual array is empty.
C7_EmptyArray ==
    Asserted =>
        \A f \in ArrayFields :
            desired[f] = Some(<< >>) =>
                /\ self_claims[f] # Some(<< >>) => ~assert_result.ok
                /\ self_claims[f] = Some(<< >>) => assert_result.field # f
                /\ OnlyDesired(f) => (assert_result.ok <=> self_claims[f] = Some(<< >>))

\* desired {roles: []} against actual {roles: ["user"]} has been asserted, and failed.
C7_Witness ==
    /\ Asserted
    /\ desired = With(Claims_default, "roles", << >>)
    /\ self_claims = With(Claims_default, "roles", << "user" >>)
    /\ ~assert_result.ok

NonEmptyArray(o) == is_some(o) /\ unwrap(o) # << >>

\* C8: a desired array field equal to ["*"] is satisfied exactly when the
\* actual array is non-empty, whatever its elements: an empty (or absent)
\* actual array makes the assertion fail, a non-empty one is never the field
\* the assertion fails on, and with no other desired field the assertion
\* passes exactly when the actual array is non-empty.
C8_Wildcard ==
    Asserted =>
        \A f \in ArrayFields :
            desired[f] = Some(<< "*" >>) =>
                /\ ~NonEmptyArray(self_claims[f]) => ~assert_result.ok
                /\ NonEmptyArray(self_claims[f]) => assert_result.field # f
                /\ OnlyDesired(f) => (assert_result.ok <=> NonEmptyArray(self_claims[f]))

\* desired {roles: ["*"]} against an actual array of other elements has been
\* asserted, and passed.
C8_Witness ==
    /\ Asserted
    /\ desired = With(Claims_default, "roles", << "*" >>)
    /\ self_claims = With(Claims_default, "roles", << "admin", "user" >>)
    /\ assert_result.ok

\* C9: a desired array field that is neither empty nor ["*"] is satisfied
\* exactly when the actual array has the same elements in the same order: any
\* other actual array (the same elements in another order included) makes the
\* assertion fail, an equal one is never the field the assertion fails on, and
\* with no other desired field the assertion passes exactly on equality.
C9_ExactArray ==
    Asserted =>
        \A f \in ArrayFields :
            (is_some(desired[f]) /\ unwrap(desired[f]) \notin { << >>, << "*" >> }) =>
                /\ self_claims[f] # desired[f] => ~assert_result.ok
                /\ self_claims[f] = desired[f] => assert_result.field # f
                /\ OnlyDesired(f) => (assert_result.ok <=> self_claims[f] = desired[f])

\* desired {roles: ["user","admin"]} against actual {roles: ["admin","user"]}
\* has been asserted, and failed.
C9_Witness ==
    /\ Asserted
    /\ desired = With(Claims_default, "roles", << "user", "admin" >>)
    /\ self_claims = With(Claims_default, "roles", << "admin", "user" >>)
    /\ assert_result = Err("mismatch", "roles")

\* C10: a non-null scalar desired field (exp, scope, email, login_kubernetes,
\* org) is satisfied exactly when the actual field holds an equal value: a
\* different actual value makes the assertion fail, and the error names that
\* field whenever the assertion gets to it (no other desired field is
\* unmatched; the assertion stops at its first unsatisfied field); an equal
\* value is never the field the assertion fails on, and with no other desired
\* field the assertion passes exactly on equality.
C10_Scalar ==
    Asserted =>
        \A f \in ScalarFields :
            is_some(desired[f]) =>
                /\ self_claims[f] # desired[f] => ~assert_result.ok
                /\ (is_some(self_claims[f]) /\ self_claims[f] # desired[f] /\ OthersMatched(f))
                       => assert_result = Err("mismatch", f)
                /\ self_claims[f] = desired[f] => assert_result.field # f
                /\ OnlyDesired(f) => (assert_result.ok <=> self_claims[f] = desired[f])

\* desired {email: "desired@example.com"} against actual
\* {email: "actual@example.com"} has been asserted, and failed naming email.
C10_Witness ==
    /\ Asserted
    /\ desired = With(Claims_default, "email", "desired@example.com")
    /\ self_claims = With(Claims_default, "email", "actual@example.com")
    /\ assert_result = Err("mismatch", "email")

\* C10 as stated: ... and a different actual value makes the assertion fail
\* with an error naming that field, whatever the other fields hold.
C10_Original ==
    Asserted =>
        \A f \in ScalarFields :
            is_some(desired[f]) =>
                /\ self_claims[f] # desired[f] => ~assert_result.ok
                /\ (is_some(self_claims[f]) /\ self_claims[f] # desired[f])
                       => assert_result = Err("mismatch", f)
                /\ self_claims[f] = desired[f] => assert_result.field # f

\* The desired set populates no field.
AllNull(c) == \A g \in ClaimFields : is_none(c[g])

\* C11: only the non-null fields of the desired set are checked: an all-null
\* desired set is satisfied by every actual set, and a failure is never about
\* a field that is null in desired; a field that is non-null in desired and
\* null in actual makes the assertion fail, and the error is the missing-field
\* error of that field whenever the assertion gets to it (no other desired
\* field is unmatched; the assertion stops at its first unsatisfied field).
C11_NonNullOnly ==
    Asserted =>
        /\ AllNull(desired) => assert_result = Ok
        /\ ~assert_result.ok => is_some(desired[assert_result.field])
        /\ \A f \in ClaimFields :
              (is_some(desired[f]) /\ is_none(self_claims[f])) =>
                  /\ ~assert_result.ok
                  /\ OthersMatched(f) => assert_result = Err("Missing field", f)

\* desired {org: "org1"} against an actual set with an email and no org has
\* been asserted, and failed with the missing-field error of org.
C11_Witness ==
    /\ Asserted
    /\ desired = With(Claims_default, "org", "org1")
    /\ self_claims = With(Claims_default, "email", "actual@example.com")
    /\ assert_result = Err("Missing field", "org")

\* C11 as stated: a field that is non-null in desired and null in actual
\* always makes the assertion fail with a missing-field error, whatever the
\* other fields hold.
C11_Original ==
    Asserted =>
        /\ AllNull(desired) => assert_result = Ok
        /\ \A f \in ClaimFields :
              (is_some(desired[f]) /\ is_none(self_claims[f])) =>
                  /\ ~assert_result.ok
                  /\ assert_result.kind = "Missing field"

-----------------------------------------------------------------------------
(* Claims::merge applied to drawn claim sets: self_claims is `self`, desired *)
(* is `from`, and the call remembers what `self` was                        *)

DoMerge ==
    /\ call = NoCall
    /\ call' = Call("merge", force, now, self_claims)
    /\ self_claims' = Claims_merge(self_claims, desired)
    /\ UNCHANGED << desired, assert_result, fs, tty, flowVars, now, repoVars, execVars, procVars,
                    pre, log >>

NextMerge == DoMerge

SpecMerge == InitClaims /\ [][NextMerge]_vars

Merged == call.op = "merge"

\* C12: after merge, every field of `self` holds the incoming value when that
\* is non-null and the value `self` held before otherwise; so an incoming
\* array or map stands in place of the old one as it is, nothing of the old
\* one kept, and an all-null incoming set leaves `self` as it was.
C12_Merge ==
    Merged =>
        /\ \A f \in ClaimFields :
              self_claims[f] = IF is_some(desired[f]) THEN desired[f] ELSE call.arg[f]
        /\ AllNull(desired) => self_claims = call.arg

\* roles ["admin"] has been merged over roles ["user"], and roles is ["admin"].
C12_Witness ==
    /\ Merged
    /\ call.arg["roles"] = Some(<< "user" >>)
    /\ desired["roles"] = Some(<< "admin" >>)
    /\ is_some(call.arg["email"]) /\ is_none(desired["email"])
    /\ self_claims["roles"] = Some(<< "admin" >>)
    /\ self_claims["email"] = call.arg["email"]

-----------------------------------------------------------------------------
(* The specification of the token store: the public store operations called *)
(* on a store rooted at <config_root>/auth, while the clock advances        *)

\* What a token directory may hold when the process starts: files left by
\* earlier runs (or damaged since).
DiskContents ==
    { [ k \in TokenKinds |->
          CASE k = "ACCESS_TOKEN" -> a [] k = "ID_TOKEN" -> i [] k = "REFRESH_TOKEN" -> r ] :
        a \in { None } \cup { Some(t) : t \in AccessJwts \cup { "garbage" } },
        i \in { None } \cup { Some(t) : t \in IdJwts \cup { "garbage" } },
        r \in { None, Some(""), Some("rt.1") } }

\* The bundles a caller hands to write_tokens / the provider answers with.
IssuedBundles ==
    { Bundle(a, i, r) :
        a \in { None, Some("at.far") },
        i \in { None, Some("id.k8s.far"), Some("id.plain.far"), Some("id.org1.far") },
        r \in { None, Some("rt.2") } }

\* The moments the clock shows: 61, 60 and 59 minutes before ExpT.
Clock == << ExpT - 61 * 60, ExpT - Hour, ExpT - 59 * 60 >>

InitStore ==
    /\ fs \in { [ d \in { Root } |-> files ] : files \in DiskContents }
    /\ now = Clock[1]
    /\ tty = TRUE
    /\ self_claims = Claims_default
    /\ desired = Claims_default
    /\ assert_result = NotRun
    /\ auth_dir = Root
    /\ organization_id = None
    /\ force = FALSE
    /\ scopes = DEFAULT_SCOPES
    /\ desired_claims = Claims_default
    /\ IdleExec
    /\ call = NoCall
    /\ pre = fs
    /\ log = << >>

\* Time passes.
Tick ==
    /\ \E i \in 1..(Len(Clock) - 1) : now = Clock[i] /\ now' = Clock[i + 1]
    /\ UNCHANGED << claimVars, procVars, fs, tty, flowVars, repoVars, execVars, histVars >>

\* token_repository.should_refresh()
ShouldRefresh ==
    LET r == should_refresh(fs, auth_dir, now) IN
    /\ call' = [ Call("should_refresh", force, now, NoBundle) EXCEPT
                   !.sr = IF r.ok THEN Some(r.val) ELSE None ]
    /\ rv' = IF r.ok THEN Success(NoBundle) ELSE Failure("unable to decode token")
    /\ pre' = fs
    /\ UNCHANGED << claimVars, procVars, fs, tty, flowVars, now, repoVars, stack,
                    access_token_response, polls, log >>

\* token_repository.write_tokens(&tokens)
WriteTokens ==
    \E tokens \in IssuedBundles :
        /\ call' = Call("write_tokens", force, now, tokens)
        /\ pre' = fs
        /\ fs' = write_tokens(fs, auth_dir, tokens)
        /\ rv' = Success(NoBundle)
        /\ UNCHANGED << claimVars, procVars, tty, flowVars, now, repoVars, stack,
                        access_token_response, polls, log >>

\* token_repository.is_logged_in()
IsLoggedIn ==
    /\ call' = [ Call("is_logged_in", force, now, NoBundle) EXCEPT
                   !.sr = Some(is_logged_in(fs, auth_dir)) ]
    /\ rv' = Success(NoBundle)
    /\ pre' = fs
    /\ UNCHANGED << claimVars, procVars, fs, tty, flowVars, now, repoVars, stack,
                    access_token_response, polls, log >>

NextStore == Tick \/ ShouldRefresh \/ WriteTokens \/ IsLoggedIn

SpecStore == InitStore /\ [][NextStore]_vars

\* exp of the token in file k of the store's directory when the call started
\* (for a file that holds a JWT with an exp claim).
HasExp(k) ==
    /\ is_some(pre[auth_dir][k])
    /\ is_some(decode(unwrap(pre[auth_dir][k])))
    /\ is_some(unwrap(decode(unwrap(pre[auth_dir][k]))).exp)
ExpOf(k) == unwrap(unwrap(decode(unwrap(pre[auth_dir][k]))).exp)

\* C5: with an ID token and an access token that both carry exp,
\* should_refresh() returns true exactly when now is later than the ID token's
\* exp minus one hour or later than the access token's exp minus one hour;
\* with the ID token expiring late, it is true 59 minutes before the access
\* token's exp and false 61 and 60 minutes before it.
C5_FreshnessMargin ==
    (call.op = "should_refresh" /\ HasExp("ID_TOKEN") /\ HasExp("ACCESS_TOKEN")) =>
        /\ rv.ok
        /\ call.sr = Some(\/ call.at > ExpOf("ID_TOKEN") - 3600
                          \/ call.at > ExpOf("ACCESS_TOKEN") - 3600)
        /\ (ExpOf("ID_TOKEN") = ExpFar /\ ExpOf("ACCESS_TOKEN") = ExpT) =>
              /\ call.at = ExpT - 59 * 60 => call.sr = Some(TRUE)
              /\ call.at = ExpT - 61 * 60 => call.sr = Some(FALSE)

\* should_refresh() was asked 59 minutes before the access token's exp, the
\* ID token expiring late, and answered true.
C5_Witness ==
    /\ call.op = "should_refresh"
    /\ pre[auth_dir]["ACCESS_TOKEN"] = Some("at.T")
    /\ pre[auth_dir]["ID_TOKEN"] = Some("id.k8s.far")
    /\ call.at = ExpT - 59 * 60
    /\ call.sr = Some(TRUE)

\* C6: write_tokens writes only the token kinds present in the bundle: a file
\* whose field is absent is as it was before the call, and read_token still
\* returns its old content; a file whose field is present holds that token.
C6_WriteOnlyPresent ==
    call.op = "write_tokens" =>
        \A k \in TokenKinds :
            /\ is_none(call.arg[FieldOf(k)]) =>
                  /\ fs[auth_dir][k] = pre[auth_dir][k]
                  /\ read_token(fs, auth_dir, k) = pre[auth_dir][k]
            /\ is_some(call.arg[FieldOf(k)]) =>
                  read_token(fs, auth_dir, k) = call.arg[FieldOf(k)]

\* A bundle with access and ID token and no refresh token was written over a
\* stored bundle, and the stored refresh token is still there.
C6_Witness ==
    /\ call.op = "write_tokens"
    /\ call.arg = Bundle(Some("at.far"), Some("id.k8s.far"), None)
    /\ pre[auth_dir] = [ k \in TokenKinds |->
          CASE k = "ACCESS_TOKEN" -> Some("at.T") [] k = "ID_TOKEN" -> Some("id.k8s.T")
            [] k = "REFRESH_TOKEN" -> Some("rt.1") ]
    /\ read_token(fs, auth_dir, "REFRESH_TOKEN") = Some("rt.1")
    /\ read_token(fs, auth_dir, "ACCESS_TOKEN") = Some("at.far")
    /\ read_token(fs, auth_dir, "ID_TOKEN") = Some("id.k8s.far")

\* The token file k was there when the call started.
Present(k) == is_some(pre[auth_dir][k])

\* C13, as the code has it: is_logged_in() is true exactly when the ID token
\* file, the access token file and the refresh token file are all present;
\* with the first two present, the answer is the presence of the refresh token
\* file.
C13_LoggedIn ==
    call.op = "is_logged_in" =>
        /\ call.sr = Some(\A k \in TokenKinds : Present(k))
        /\ fs = pre

\* is_logged_in() was asked with the ID and access token files present and no
\* refresh token file, and answered false.
C13_Witness ==
    /\ call.op = "is_logged_in"
    /\ Present("ID_TOKEN") /\ Present("ACCESS_TOKEN") /\ ~Present("REFRESH_TOKEN")
    /\ call.sr = Some(FALSE)

\* C13 as stated: is_logged_in() is true exactly when the ID token file and
\* the access token file are both present, whatever the refresh token file.
C13_Original ==
    call.op = "is_logged_in" =>
        call.sr = Some(Present("ID_TOKEN") /\ Present("ACCESS_TOKEN"))

-----------------------------------------------------------------------------
(* The orchestrator: try_login, try_refresh, login and refresh, step by step *)

\* The frame that is running, and moves of the call stack.
Top == stack[Len(stack)]
At(fn, pc) == Len(stack) > 0 /\ Top = [ fn |-> fn, pc |-> pc ]
Frame(fn, pc) == [ fn |-> fn, pc |-> pc ]
Goto(pc) == stack' = [ stack EXCEPT ![Len(stack)].pc = pc ]
Enter(fn, back) ==
    stack' = Append([ stack EXCEPT ![Len(stack)].pc = back ], Frame(fn, "start"))
Return(returned) ==
    /\ stack' = SubSeq(stack, 1, Len(stack) - 1)
    /\ rv' = returned

\* One event of the running call: the function it happened in, what happened,
\* and the error when the function failed there.
Event(fn, ev) == [ fn |-> fn, ev |-> ev, err |-> "" ]
Error(fn, ev, err) == [ fn |-> fn, ev |-> ev, err |-> err ]
Log(events) == log' = log \o events

\* Mutant: the bundle is taken as it is.
assert_claims_skipped(tokens, des) == Ok

\* TokenRepository::assert_claims: the bundle's ID-token claims against the
\* store's desired claims.
assert_claims(tokens, des) == Claims_assert(into_claims(tokens.id_token), des)

\* AccessTokenResponse::has_token / is_expired / is_denied
has_token(response) == is_some(response.access_token)
is_expired(response) == response.error = Some("expired_token")
is_denied(response) == response.error = Some("access_denied")

\* sleep(time::Duration::from_secs(self.interval as u64)): the seconds waited
sleep(secs) == secs

\* AccessTokenResponse::is_pending (dead code: the loop does not call it)
is_pending(response) == response.error = Some("authorization_pending")

\* The event of a poll after which the loop goes round again: the debug! line
\* "Access token not yet available", for a pending authorization and for any
\* other answer that the three tests let through.
poll_again(response) ==
    IF is_pending(response) THEN "token_poll" ELSE "token_poll_unrecognized"

\* What the token endpoint may answer to a poll of the device flow, and to the
\* refresh grant.
PollResponses ==
    IssuedBundles \cup { ErrorResponse(e) : e \in { "authorization_pending",
                             "expired_token", "access_denied", "invalid_request" } }
RefreshResponses == IssuedBundles \cup { ErrorResponse("invalid_grant") }

\* A caller starts an orchestrator function on the store.
Begin(op) ==
    /\ stack' = << Frame(op, "start") >>
    /\ call' = Call(op, force, now, NoBundle)
    /\ pre' = fs
    /\ log' = << >>
    /\ rv' = NoResult
    /\ access_token_response' = NoBundle
    /\ polls' = 0
    /\ raw_response' = NoBody
    /\ device_code_response' = None
    /\ slept' = << >>
    /\ UNCHANGED << claimVars, procVars, fs, tty, now, repoVars >>

\* token_repository.try_login(&reason)
CallTryLogin ==
    /\ stack = << >>
    /\ Begin("try_login")

\* token_repository.try_refresh(&reason)
CallTryRefresh ==
    /\ stack = << >>
    /\ Begin("try_refresh")

\* A builder method of the store was called: what was observed of the last
\* try_login / try_refresh call is over.
Configured(op, flag) ==
    /\ call' = Call(op, flag, now, NoBundle)
    /\ pre' = fs
    /\ log' = << >>

\* token_repository.force()
Force ==
    /\ stack = << >>
    /\ force' = TRUE
    /\ Configured("force", TRUE)
    /\ UNCHANGED << claimVars, procVars, fs, tty, flowVars, now, auth_dir, organization_id, scopes,
                    desired_claims, execVars >>

\* TokenRepository::with_scope, as whoami calls it for --output k8s-auth:
\* with_scope("login:kubernetes", Claims { login_kubernetes: Some("true") })
WithScope ==
    /\ stack = << >>
    /\ scopes' = scopes \cup { "login:kubernetes" }
    /\ desired_claims' = Claims_merge(desired_claims,
                             With(Claims_default, "login_kubernetes", "true"))
    /\ Configured("with_scope", force)
    /\ UNCHANGED << claimVars, procVars, fs, tty, flowVars, now, auth_dir, organization_id, force,
                    execVars >>

-----------------------------------------------------------------------------
(* try_login *)

\* match self.force: true => clear()?, login(Forcing);  false => try_refresh
TryLoginStart ==
    /\ At("try_login", "start")
    /\ IF force
       THEN /\ fs' = clear(fs, auth_dir)
            /\ Log(<< Event("try_login", "clear"), Event("login", "enter") >>)
            /\ Enter("login", "got")
       ELSE /\ Log(<< Event("try_refresh", "enter") >>)
            /\ Enter("try_refresh", "refreshed")
            /\ UNCHANGED fs
    /\ UNCHANGED << claimVars, procVars, tty, flowVars, now, repoVars, rv, access_token_response,
                    polls, call, pre >>

\* Mutant: an error of try_refresh is taken as "no bundle", and the device
\* flow is started.
TryLoginRefreshed_falls_back ==
    /\ At("try_login", "refreshed")
    /\ IF rv.ok
       THEN /\ access_token_response' = read_tokens(fs, auth_dir)
            /\ Goto("assert")
            /\ UNCHANGED log
       ELSE /\ Log(<< Event("login", "enter") >>)
            /\ Enter("login", "got")
            /\ UNCHANGED access_token_response
    /\ UNCHANGED << claimVars, procVars, fs, tty, flowVars, now, repoVars, rv, polls, call, pre >>

\* self.try_refresh(reason).await?.read_tokens().ok(): every token file of the
\* model is readable, so read_tokens() is Ok and the bundle is Some.
TryLoginRefreshed ==
    /\ At("try_login", "refreshed")
    /\ IF rv.ok
       THEN /\ access_token_response' = read_tokens(fs, auth_dir)
            /\ Goto("assert")
            /\ UNCHANGED rv
       ELSE /\ Return(rv)
            /\ UNCHANGED access_token_response
    /\ UNCHANGED << claimVars, procVars, fs, tty, flowVars, now, repoVars, polls, histVars >>

\* self.login(..).await?
TryLoginGot ==
    /\ At("try_login", "got")
    /\ IF rv.ok
       THEN /\ access_token_response' = rv.val
            /\ Goto("assert")
            /\ UNCHANGED rv
       ELSE /\ Return(rv)
            /\ UNCHANGED access_token_response
    /\ UNCHANGED << claimVars, procVars, fs, tty, flowVars, now, repoVars, polls, histVars >>

\* Mutant: an assertion failure starts the device flow again.
TryLoginAssert_relogin ==
    /\ At("try_login", "assert")
    /\ IF assert_claims(access_token_response, desired_claims).ok
       THEN /\ Log(<< Event("try_login", "assert") >>)
            /\ Goto("write")
       ELSE /\ Log(<< Error("try_login", "assert", "claim assertion failed"),
                      Event("login", "enter") >>)
            /\ Enter("login", "got")
    /\ UNCHANGED << claimVars, procVars, fs, tty, flowVars, now, repoVars, rv, access_token_response,
                    polls, call, pre >>

\* self.assert_claims(&access_token_response, ..).await?
TryLoginAssert ==
    /\ At("try_login", "assert")
    /\ IF assert_claims(access_token_response, desired_claims).ok
       THEN /\ Log(<< Event("try_login", "assert") >>)
            /\ Goto("write")
            /\ UNCHANGED rv
       ELSE /\ Log(<< Error("try_login", "assert", "claim assertion failed") >>)
            /\ Return(Failure("claim assertion failed"))
    /\ UNCHANGED << claimVars, procVars, fs, tty, flowVars, now, repoVars, access_token_response,
                    polls, call, pre >>

\* self.write_tokens(&access_token_response)?; Ok(self)
TryLoginWrite ==
    /\ At("try_login", "write")
    /\ fs' = write_tokens(fs, auth_dir, access_token_response)
    /\ Log(<< Event("try_login", "write") >>)
    /\ Return(Success(NoBundle))
    /\ UNCHANGED << claimVars, procVars, tty, flowVars, now, repoVars, access_token_response,
                    polls, call, pre >>

-----------------------------------------------------------------------------
(* try_refresh *)

\* match (self.force, self.should_refresh()?)
TryRefreshStart ==
    /\ At("try_refresh", "start")
    /\ LET sr == should_refresh(fs, auth_dir, now) IN
       IF ~sr.ok
       THEN /\ Log(<< Error("try_refresh", "should_refresh", "unable to decode token") >>)
            /\ Return(Failure("unable to decode token"))
            /\ UNCHANGED << call, access_token_response >>
       ELSE /\ call' = [ call EXCEPT !.sr = Some(sr.val) ]
            /\ IF force
               THEN /\ Log(<< Event("try_refresh", "should_refresh"),
                              Event("refresh", "enter") >>)
                    /\ Enter("refresh", "forced")
                    /\ UNCHANGED << rv, access_token_response >>
               ELSE IF sr.val
                    THEN /\ Log(<< Event("try_refresh", "should_refresh"),
                                   Event("refresh", "enter") >>)
                         /\ Enter("refresh", "expired")
                         /\ UNCHANGED << rv, access_token_response >>
                    ELSE /\ Log(<< Event("try_refresh", "should_refresh"),
                                   Event("try_refresh", "read_tokens") >>)
                         /\ access_token_response' = read_tokens(fs, auth_dir)
                         /\ Goto("assert")
                         /\ UNCHANGED rv
    /\ UNCHANGED << claimVars, procVars, fs, tty, flowVars, now, repoVars, polls, pre >>

\* (true, _) => self.refresh(Forcing).await?
TryRefreshForced ==
    /\ At("try_refresh", "forced")
    /\ IF rv.ok
       THEN /\ access_token_response' = rv.val
            /\ Goto("assert")
            /\ UNCHANGED rv
       ELSE /\ Return(rv)
            /\ UNCHANGED access_token_response
    /\ UNCHANGED << claimVars, procVars, fs, tty, flowVars, now, repoVars, polls, histVars >>

\* Mutant: the refresh error is returned with `?`, as in the forced arm.
TryRefreshExpired_propagates ==
    /\ At("try_refresh", "expired")
    /\ IF rv.ok
       THEN /\ access_token_response' = rv.val
            /\ Goto("assert")
            /\ UNCHANGED rv
       ELSE /\ Return(rv)
            /\ UNCHANGED access_token_response
    /\ UNCHANGED << claimVars, procVars, fs, tty, flowVars, now, repoVars, polls, histVars >>

\* (_, true) => match self.refresh(Expired).await
\*     Ok(r) => r,  Err(_) => self.login(Expired).await?
TryRefreshExpired ==
    /\ At("try_refresh", "expired")
    /\ IF rv.ok
       THEN /\ access_token_response' = rv.val
            /\ Goto("assert")
            /\ UNCHANGED log
       ELSE /\ Log(<< Event("login", "enter") >>)
            /\ Enter("login", "got")
            /\ UNCHANGED access_token_response
    /\ UNCHANGED << claimVars, procVars, fs, tty, flowVars, now, repoVars, rv, polls, call, pre >>

\* Mutant: a failed fallback login removes the stored tokens.
TryRefreshGot_clears_on_error ==
    /\ At("try_refresh", "got")
    /\ IF rv.ok
       THEN /\ access_token_response' = rv.val
            /\ Goto("assert")
            /\ UNCHANGED << rv, fs >>
       ELSE /\ Return(rv)
            /\ fs' = clear(fs, auth_dir)
            /\ UNCHANGED access_token_response
    /\ UNCHANGED << claimVars, procVars, tty, flowVars, now, repoVars, polls, histVars >>

\* the result of the fallback login: self.login(..).await?
TryRefreshGot ==
    /\ At("try_refresh", "got")
    /\ IF rv.ok
       THEN /\ access_token_response' = rv.val
            /\ Goto("assert")
            /\ UNCHANGED rv
       ELSE /\ Return(rv)
            /\ UNCHANGED access_token_response
    /\ UNCHANGED << claimVars, procVars, fs, tty, flowVars, now, repoVars, polls, histVars >>

\* Mutant: write_tokens comes before assert_claims.
TryRefreshAssert_after_write ==
    /\ At("try_refresh", "assert")
    /\ fs' = write_tokens(fs, auth_dir, access_token_response)
    /\ IF assert_claims(access_token_response, desired_claims).ok
       THEN /\ Log(<< Event("try_refresh", "write"), Event("try_refresh", "assert") >>)
            /\ Return(Success(NoBundle))
       ELSE /\ Log(<< Event("try_refresh", "write"),
                      Error("try_refresh", "assert", "claim assertion failed") >>)
            /\ Return(Failure("claim assertion failed"))
    /\ UNCHANGED << claimVars, procVars, tty, flowVars, now, repoVars, access_token_response,
                    polls, call, pre >>

\* self.assert_claims(&access_token_response, ..).await?
TryRefreshAssert ==
    /\ At("try_refresh", "assert")
    /\ IF assert_claims(access_token_response, desired_claims).ok
       THEN /\ Log(<< Event("try_refresh", "assert") >>)
            /\ Goto("write")
            /\ UNCHANGED rv
       ELSE /\ Log(<< Error("try_refresh", "assert", "claim assertion failed") >>)
            /\ Return(Failure("claim assertion failed"))
    /\ UNCHANGED << claimVars, procVars, fs, tty, flowVars, now, repoVars, access_token_response,
                    polls, call, pre >>

\* self.write_tokens(&access_token_response)?; Ok(self)
TryRefreshWrite ==
    /\ At("try_refresh", "write")
    /\ fs' = write_tokens(fs, auth_dir, access_token_response)
    /\ Log(<< Event("try_refresh", "write") >>)
    /\ Return(Success(NoBundle))
    /\ UNCHANGED << claimVars, procVars, tty, flowVars, now, repoVars, access_token_response,
                    polls, call, pre >>

-----------------------------------------------------------------------------
(* login: the interactive device-code flow *)

\* Mutant: the flow starts whatever standard input is.
LoginStart_unguarded ==
    /\ At("login", "start")
    /\ Goto("discover")
    /\ UNCHANGED << claimVars, procVars, fs, tty, flowVars, now, repoVars, rv, access_token_response,
                    polls, histVars >>

\* if atty::isnt(Stream::Stdin) { return Err("Please run .. in an interactive session.") }
LoginStart ==
    /\ At("login", "start")
    /\ IF ~tty
       THEN /\ Log(<< Error("login", "return", "non-interactive session") >>)
            /\ Return(Failure("non-interactive session"))
       ELSE /\ Goto("discover")
            /\ UNCHANGED << rv, log >>
    /\ UNCHANGED << claimVars, procVars, fs, tty, flowVars, now, repoVars, access_token_response,
                    polls, call, pre >>

\* openid::DeviceCodeRequest::new(self).await?: the discovery document is fetched
LoginDiscover ==
    /\ At("login", "discover")
    /\ \E reached \in BOOLEAN :
          IF reached
          THEN /\ Log(<< Event("login", "discovery") >>)
               /\ Goto("send")
               /\ UNCHANGED rv
          ELSE /\ Log(<< Error("login", "discovery", "transport") >>)
               /\ Return(Failure("transport"))
    /\ UNCHANGED << claimVars, procVars, fs, tty, flowVars, now, repoVars, access_token_response,
                    polls, call, pre >>

\* The interval a device authorization endpoint may advertise.
DeviceCodeBodies == { JsonNumber(5), JsonNumber(0), JsonNumber(-1), JsonString }

\* DeviceCodeRequest::login: self.send(device_authorization_endpoint).await?,
\* which ends with Ok(serde_json::from_str(&raw_response)?)
LoginSend ==
    /\ At("login", "send")
    /\ \/ /\ Log(<< Error("login", "device_authorization", "transport") >>)
          /\ Return(Failure("unable to exchange device code for tokens"))
          /\ UNCHANGED << raw_response, device_code_response >>
       \/ \E body \in DeviceCodeBodies :
             /\ raw_response' = body
             /\ device_code_response' = from_str(body)
             /\ IF is_some(from_str(body))
                THEN /\ Log(<< Event("login", "device_authorization") >>)
                     /\ Goto("poll")
                     /\ UNCHANGED rv
                ELSE /\ Log(<< Error("login", "device_authorization", "invalid response") >>)
                     /\ Return(Failure("unable to exchange device code for tokens"))
    /\ polls' = 0
    /\ slept' = << >>
    /\ UNCHANGED << claimVars, procVars, fs, tty, now, repoVars, access_token_response,
                    call, pre >>

\* DeviceCodeResponse::exchange_for_token: one turn of the loop, the sleep of
\* self.interval seconds and the POST to the token endpoint, and what its
\* answer leads to.
LoginPoll ==
    /\ At("login", "poll")
    /\ polls < MaxPolls
    /\ polls' = polls + 1
    /\ slept' = Append(slept, sleep(unwrap(device_code_response).interval))
    /\ \/ /\ Log(<< Error("login", "token_poll", "transport") >>)
          /\ Return(Failure("unable to exchange device code for tokens"))
       \/ \E response \in PollResponses :
             IF has_token(response)
             THEN /\ Log(<< Event("login", "token_poll") >>)
                  /\ Return(Success(response))
             ELSE IF is_expired(response)
                  THEN /\ Log(<< Error("login", "token_poll", "Device code expired.") >>)
                       /\ Return(Failure("unable to exchange device code for tokens"))
                  ELSE IF is_denied(response)
                       THEN /\ Log(<< Error("login", "token_poll", "User denied request.") >>)
                            /\ Return(Failure("unable to exchange device code for tokens"))
                       ELSE /\ polls + 1 < MaxPolls
                            /\ Log(<< Event("login", poll_again(response)) >>)
                            /\ UNCHANGED << stack, rv >>
    /\ UNCHANGED << claimVars, procVars, fs, tty, raw_response, device_code_response,
                    now, repoVars, access_token_response, call, pre >>

-----------------------------------------------------------------------------
(* refresh: the refresh grant *)

\* self.read_token(AuthToken::Refresh)?.context("missing refresh token")?
RefreshStart ==
    /\ At("refresh", "start")
    /\ IF is_none(read_token(fs, auth_dir, "REFRESH_TOKEN"))
       THEN /\ Log(<< Error("refresh", "return", "missing refresh token") >>)
            /\ Return(Failure("missing refresh token"))
       ELSE /\ Goto("discover")
            /\ UNCHANGED << rv, log >>
    /\ UNCHANGED << claimVars, procVars, fs, tty, flowVars, now, repoVars, access_token_response,
                    polls, call, pre >>

\* openid::DeviceCodeRequest::new(self).await?
RefreshDiscover ==
    /\ At("refresh", "discover")
    /\ \E reached \in BOOLEAN :
          IF reached
          THEN /\ Log(<< Event("refresh", "discovery") >>)
               /\ Goto("grant")
               /\ UNCHANGED rv
          ELSE /\ Log(<< Error("refresh", "discovery", "transport") >>)
               /\ Return(Failure("transport"))
    /\ UNCHANGED << claimVars, procVars, fs, tty, flowVars, now, repoVars, access_token_response,
                    polls, call, pre >>

\* DeviceCodeRequest::refresh: the POST with grant_type=refresh_token; a
\* response with an error is Err(response.as_error()), any other is Ok.
RefreshGrant ==
    /\ At("refresh", "grant")
    /\ \/ /\ Log(<< Error("refresh", "refresh_grant", "transport") >>)
          /\ Return(Failure("unable to refresh tokens"))
       \/ \E response \in RefreshResponses :
             IF is_some(response.error)
             THEN /\ Log(<< Error("refresh", "refresh_grant", unwrap(response.error)) >>)
                  /\ Return(Failure("unable to refresh tokens"))
             ELSE /\ Log(<< Event("refresh", "refresh_grant") >>)
                  /\ Return(Success(response))
    /\ UNCHANGED << claimVars, procVars, fs, tty, flowVars, now, repoVars, access_token_response,
                    polls, call, pre >>

-----------------------------------------------------------------------------
(* The specification of the orchestrator: a store made by                   *)
(* TokenRepository::new over what earlier runs left on disk, configured and *)
(* then asked to log in or to refresh, any number of times                  *)

Init ==
    /\ fs \in { [ d \in { Root } |-> files ] : files \in DiskContents }
    /\ now \in { Clock[2], Clock[3] }
    /\ tty \in BOOLEAN
    /\ self_claims = Claims_default
    /\ desired = Claims_default
    /\ assert_result = NotRun
    /\ auth_dir = Root
    /\ organization_id = None
    /\ force = FALSE
    /\ scopes = DEFAULT_SCOPES
    /\ desired_claims = Claims_default
    /\ IdleExec
    /\ call = NoCall
    /\ pre = fs
    /\ log = << >>

Next ==
    \/ Force \/ WithScope \/ CallTryLogin \/ CallTryRefresh
    \/ TryLoginStart \/ TryLoginRefreshed \/ TryLoginGot \/ TryLoginAssert
    \/ TryLoginWrite
    \/ TryRefreshStart \/ TryRefreshForced \/ TryRefreshExpired \/ TryRefreshGot
    \/ TryRefreshAssert \/ TryRefreshWrite
    \/ LoginStart \/ LoginDiscover \/ LoginSend \/ LoginPoll
    \/ RefreshStart \/ RefreshDiscover \/ RefreshGrant

Spec == Init /\ [][Next]_vars

-----------------------------------------------------------------------------
(* Claims about the orchestrator, checked under Spec *)

\* The places of the running call's events, and the events that are a request
\* to the identity provider.
Events == 1 .. Len(log)
NetworkEvents == { "discovery", "device_authorization", "token_poll",
                   "token_poll_unrecognized", "refresh_grant" }
Returned == stack = << >> /\ call # NoCall
LoginEntered(i) == log[i] = Event("login", "enter")
AssertFailed(i) == log[i].ev = "assert" /\ log[i].err # ""
RefreshFailed(i) == log[i].fn = "refresh" /\ log[i].err # ""

\* The token files of a directory, and a directory holding fresh, valid tokens.
TokenFiles(files, dir) == { k \in TokenKinds : is_some(read_token(files, dir, k)) }
FreshValid(files, dir) ==
    /\ TokenFiles(files, dir) = TokenKinds
    /\ should_refresh(files, dir, now) = Fine(FALSE)

\* C1: in a try_login call with force set, the first thing that happens is the
\* deletion of the auth directory's content: right after it no token file is
\* left in the directory, whatever it held before, and every event of the
\* device flow (its entry, discovery, device authorization, token polls) comes
\* after the deletion.
C1_ForceClearsFirst ==
    (call.op = "try_login" /\ call.force) =>
        /\ (log = << >>) <=> (stack = << Frame("try_login", "start") >>)
        /\ log # << >> => log[1] = Event("try_login", "clear")
        /\ \A i \in Events : log[i].fn = "login" => i > 1
        /\ Len(log) = 2 => /\ TokenFiles(fs, auth_dir) = { }
                           /\ Len(stack) = 2 /\ Top.fn = "login"

\* C1 happens: a forced try_login over fresh, valid tokens has deleted them and
\* then requested a device authorization.
C1_Witness ==
    /\ call.op = "try_login" /\ call.force
    /\ FreshValid(pre, auth_dir)
    /\ pre[auth_dir]["REFRESH_TOKEN"] = Some("rt.1")
    /\ TokenFiles(fs, auth_dir) = { }
    /\ \E i \in Events : log[i] = Event("login", "device_authorization")

\* C2: in a try_refresh call without force where should_refresh() was true, a
\* failed refresh (provider error, transport error or missing refresh token) is
\* followed at once by the entry of the device flow; the call never returns
\* the refresh error, and it returns Ok whenever the login gave a bundle that
\* passes the claim assertion.
C2_RefreshFallback ==
    (call.op = "try_refresh" /\ ~call.force /\ call.sr = Some(TRUE)) =>
        \A i \in Events : RefreshFailed(i) =>
            /\ i = Len(log) => At("try_refresh", "expired") /\ ~rv.ok
            /\ i < Len(log) => LoginEntered(i + 1)
            /\ Returned => /\ i < Len(log)
                           /\ ~rv.ok => rv.err \notin { "unable to refresh tokens",
                                                        "missing refresh token" }
                           /\ ( /\ has_token(access_token_response)
                                /\ assert_claims(access_token_response, desired_claims).ok )
                              => rv.ok

\* C2 happens: the provider refused the refresh grant with invalid_grant, the
\* fallback login gave tokens, and try_refresh returned Ok.
C2_Witness ==
    /\ call.op = "try_refresh" /\ ~call.force /\ call.sr = Some(TRUE)
    /\ Returned /\ rv.ok
    /\ \E i \in Events : log[i] = Error("refresh", "refresh_grant", "invalid_grant")
    /\ \E i \in Events : log[i] = Event("login", "device_authorization")
    /\ log[Len(log)] = Event("try_refresh", "write")

\* C3: in a try_login call, a failed claim assertion is the last thing that
\* happens: no login, refresh or write follows it, and the call returns the
\* assertion's error.
C3_AssertionIsFinal ==
    call.op = "try_login" =>
        \A i \in Events : AssertFailed(i) =>
            /\ i = Len(log)
            /\ rv = Failure("claim assertion failed")
            /\ stack \in { << >>, << Frame("try_login", "refreshed") >> }

\* C3 happens: a try_login call got a bundle from the device flow, the bundle
\* failed the assertion, and the call returned.
C3_Witness ==
    /\ call.op = "try_login"
    /\ Returned
    /\ log[Len(log)] = Error("try_login", "assert", "claim assertion failed")
    /\ \E i \in Events : log[i] = Event("login", "token_poll")
    /\ rv = Failure("claim assertion failed")

\* C4: when standard input is not interactive, an invocation of login does
\* nothing but return the non-interactive-session error: it is the event right
\* after the entry, no request to the identity provider is made in login, and
\* the call that invoked login returns that error.
C4_NonInteractive ==
    ~tty =>
        /\ \A i \in Events : log[i].fn = "login" =>
              /\ log[i].ev \notin NetworkEvents
              /\ LoginEntered(i) =>
                    IF i = Len(log)
                    THEN At("login", "start")
                    ELSE log[i + 1] = Error("login", "return", "non-interactive session")
        /\ (Returned /\ \E i \in Events : LoginEntered(i)) =>
              rv = Failure("non-interactive session")

\* C4 happens: login was invoked without an interactive standard input, after
\* a refresh that failed, and its error came back to the caller.
C4_Witness ==
    /\ ~tty
    /\ Returned
    /\ \E i \in Events : RefreshFailed(i)
    /\ log[Len(log)] = Error("login", "return", "non-interactive session")
    /\ rv = Failure("non-interactive session")

\* A try_login or try_refresh call has returned Ok.
Succeeded == Returned /\ call.op \in { "try_login", "try_refresh" } /\ rv.ok

\* The ID token file of the store's directory, and whether it holds a JWT.
StoredId == read_token(fs, auth_dir, "ID_TOKEN")
Decodes(token_opt) == is_some(token_opt) /\ is_some(decode(unwrap(token_opt)))

\* C15: after a try_login or try_refresh call that returned Ok, the claims of
\* the ID token file of the store's directory (as Into<Claims> reads them)
\* satisfy the store's desired claims; and when the desired set has a non-null
\* field, the file is there and holds a decodable token, and so did the bundle
\* the call obtained: a bundle with an absent or undecodable ID token has not
\* led to Ok.
C15_StoredIdSatisfies ==
    Succeeded =>
        /\ Claims_assert(into_claims(StoredId), desired_claims).ok
        /\ ~AllNull(desired_claims) =>
              /\ Decodes(StoredId)
              /\ Decodes(access_token_response.id_token)
              /\ StoredId = access_token_response.id_token
              /\ \A f \in ScalarFields :
                    is_some(desired_claims[f]) =>
                        unwrap(decode(unwrap(StoredId)))[f] = desired_claims[f]

\* C15 happens: with login_kubernetes desired, a try_refresh call over an
\* expiring bundle got a new bundle from the refresh grant and returned Ok,
\* and the ID token on disk carries the claim.
C15_Witness ==
    /\ Succeeded /\ call.op = "try_refresh"
    /\ desired_claims["login_kubernetes"] = Some("true")
    /\ pre[auth_dir]["ID_TOKEN"] = Some("id.k8s.T")
    /\ \E i \in Events : log[i] = Event("refresh", "refresh_grant")
    /\ StoredId = Some("id.k8s.far")

\* An orchestrator call is running or has returned.
InCall == call.op \in { "try_login", "try_refresh" }
Wrote(i) == log[i].ev = "write"

\* C16: in try_login and try_refresh a write is always the step right after a
\* passed assertion of the same function, on the bundle that was asserted;
\* nothing is written after a failed assertion, and as long as the call has
\* not written, the token files are as they were when it started (or as
\* clear() left them): a bundle that fails the assertion is never on disk.
C16_AssertBeforeWrite ==
    InCall =>
        /\ \A i \in Events : Wrote(i) =>
              /\ i > 1
              /\ log[i - 1] = Event(log[i].fn, "assert")
              /\ i = Len(log) => assert_claims(access_token_response, desired_claims).ok
        /\ \A i, j \in Events : (AssertFailed(i) /\ Wrote(j)) => j < i
        /\ (\A i \in Events : ~Wrote(i)) => fs \in { pre, clear(pre, auth_dir) }

\* C16 happens: with login_kubernetes desired, the refresh grant gave a bundle
\* whose ID token lacks the claim, try_refresh returned the assertion's error,
\* and the token files are as before.
C16_Witness ==
    /\ call.op = "try_refresh" /\ Returned
    /\ \E i \in Events : log[i] = Event("refresh", "refresh_grant")
    /\ access_token_response.id_token = Some("id.plain.far")
    /\ log[Len(log)] = Error("try_refresh", "assert", "claim assertion failed")
    /\ pre[auth_dir]["ID_TOKEN"] = Some("id.k8s.T")
    /\ fs = pre

\* The running or returned call is a try_login with force set.
ForcedLogin == call.op = "try_login" /\ call.force
NothingWritten == \A i \in Events : ~Wrote(i)

\* C17, as the code has it: a call of try_refresh, or of try_login without
\* force, that ends in an error leaves every token file as it was before the
\* call, and so does its interruption at any point before its write; a
\* try_login with force deletes the token files as its first step, so when it
\* ends in an error, or is interrupted before its write, no token file is left.
C17_ErrorLeavesStore ==
    InCall =>
        /\ (Returned /\ ~rv.ok) => NothingWritten
        /\ (NothingWritten /\ ~ForcedLogin) => fs = pre
        /\ (NothingWritten /\ ForcedLogin /\ log # << >>) => TokenFiles(fs, auth_dir) = { }
        /\ (NothingWritten /\ ForcedLogin /\ log = << >>) => fs = pre

\* C17 happens: a try_login with force over a stored bundle, without an
\* interactive standard input, has returned the error of login, and the token
\* files are gone.
C17_Witness ==
    /\ ForcedLogin /\ Returned
    /\ TokenFiles(pre, auth_dir) = TokenKinds
    /\ rv = Failure("non-interactive session")
    /\ TokenFiles(fs, auth_dir) = { }

\* C17 as stated: every call of try_login or try_refresh that ends in an
\* error leaves all token files exactly as they were before the call.
C17_Original ==
    (InCall /\ Returned /\ ~rv.ok) => fs = pre

\* What the token file k held when the call started: nothing, no JWT, or a
\* JWT that is fresh (it carries an exp, and the call's moment is not later
\* than that exp minus one hour).
Undecodable(k) == Present(k) /\ is_none(decode(unwrap(pre[auth_dir][k])))
Fresh(k) == HasExp(k) /\ ~(call.at > ExpOf(k) - 3600)
BothFresh == Fresh("ID_TOKEN") /\ Fresh("ACCESS_TOKEN")
NoneUndecodable == ~Undecodable("ID_TOKEN") /\ ~Undecodable("ACCESS_TOKEN")

\* What the call did: reused the stored bundle, entered refresh(), sent a
\* request to the identity provider.
Reused == \E i \in Events : log[i] = Event("try_refresh", "read_tokens")
RefreshEntered == \E i \in Events : log[i] = Event("refresh", "enter")
NoNetwork == \A i \in Events : log[i].ev \notin NetworkEvents
UnforcedRefresh == call.op = "try_refresh" /\ ~call.force /\ log # << >>

\* C18, as the code has it: without force, try_refresh reuses the stored
\* bundle exactly when the ID and the access token file both hold a JWT with
\* an exp that the present moment is not later than minus one hour, and then
\* it makes no network call; a token file that holds no JWT makes the call
\* fail in should_refresh, before any network call; otherwise (a file missing,
\* a token without exp, or one expiring within the hour) it enters refresh()
\* and never reuses the stored bundle.
C18_FreshPath ==
    UnforcedRefresh =>
        /\ Reused <=> BothFresh
        /\ Reused => NoNetwork
        /\ ~NoneUndecodable =>
              /\ NoNetwork /\ ~Reused /\ ~RefreshEntered
              /\ Returned /\ rv = Failure("unable to decode token")
        /\ (NoneUndecodable /\ ~BothFresh) => (RefreshEntered /\ ~Reused)

\* C18 happens: with a fresh ID token and no access token file, try_refresh
\* has sent the refresh grant.
C18_Witness ==
    /\ UnforcedRefresh
    /\ Fresh("ID_TOKEN") /\ ~Present("ACCESS_TOKEN")
    /\ \E i \in Events : log[i] = Event("refresh", "refresh_grant")
    /\ ~Reused

\* C18 as stated: without force, a try_refresh call has made no network call
\* exactly when both token files held a JWT with an exp more than one hour
\* ahead; with a file missing or a token without exp, the refresh grant is
\* sent and the stored bundle is not reused.
C18_Original ==
    (UnforcedRefresh /\ Returned) =>
        /\ NoNetwork <=> ( /\ HasExp("ID_TOKEN") /\ ExpOf("ID_TOKEN") > call.at + 3600
                           /\ HasExp("ACCESS_TOKEN") /\ ExpOf("ACCESS_TOKEN") > call.at + 3600 )
        /\ (\E k \in { "ID_TOKEN", "ACCESS_TOKEN" } : ~Present(k) \/ (~Undecodable(k) /\ ~HasExp(k)))
              => ~Reused

\* C19 as stated: when a try_refresh call without force took the fresh path
\* (it reused the stored bundle) and returned Ok, every token file is as it
\* was before the call: none created, removed or altered, so a REFRESH_TOKEN
\* file that was not there is still not there.
C19_FreshPathFrame ==
    (UnforcedRefresh /\ Reused /\ Returned /\ rv.ok) =>
        /\ fs = pre
        /\ ~Present("REFRESH_TOKEN") => is_none(read_token(fs, auth_dir, "REFRESH_TOKEN"))

\* A try_refresh call with force set has passed its first step.
ForcedRefresh == call.op = "try_refresh" /\ call.force /\ log # << >>

\* C20 as stated: with force set, try_refresh runs refresh() whatever the
\* stored ID and access token are: the call enters refresh() whether those
\* two files are fresh, expired, missing or undecodable, and it never fails
\* on decoding them.
C20_ForceSkipsChecks ==
    ForcedRefresh =>
        /\ RefreshEntered
        /\ rv # Failure("unable to decode token")

\* An unforced try_login call that has passed its first step.
UnforcedLogin == call.op = "try_login" /\ ~call.force /\ log # << >>

\* The device flow runs as a direct callee of try_login.
OwnDeviceFlow ==
    \E i \in 2 .. Len(stack) : stack[i].fn = "login" /\ stack[i - 1].fn = "try_login"

\* An error that try_refresh returns: its own, or one of the login it fell
\* back to (a refresh error is taken by the fallback, not returned).
RefreshCallError(i) == log[i].err # "" /\ log[i].fn \in { "try_refresh", "login" }

\* C21, as the code has it: in a try_login call without force the device flow
\* never runs as try_login's own callee; an error that the delegated
\* try_refresh returns is the last thing that happens, and try_login returns
\* that error; after a try_refresh that returned Ok, try_login goes on with
\* the bundle read from the store.
C21_RefreshErrorReturned ==
    UnforcedLogin =>
        /\ ~OwnDeviceFlow
        /\ \A i \in Events : RefreshCallError(i) =>
              /\ i = Len(log)
              /\ Returned => ~rv.ok
              /\ \A j \in 1 .. Len(stack) : stack[j].pc \in { "refreshed", "got" }
        /\ At("try_login", "assert") =>
              access_token_response = read_tokens(fs, auth_dir)

\* C21 happens: at a terminal, the stored ID token does not decode, the
\* delegated try_refresh failed on it, and try_login returned that error
\* without any device flow.
C21_Witness ==
    /\ UnforcedLogin /\ Returned /\ tty
    /\ rv = Failure("unable to decode token")
    /\ log[Len(log)] = Error("try_refresh", "should_refresh", "unable to decode token")
    /\ \A i \in Events : ~LoginEntered(i)

\* C21 as stated: when the delegated try_refresh returned an error, try_login
\* entered the device flow after it.
C21_Original ==
    (UnforcedLogin /\ Returned) =>
        \A i \in Events : RefreshCallError(i) =>
            \E j \in Events : j > i /\ LoginEntered(j)

\* The polls of the token endpoint in the running call's device flow.
Polled(i) == log[i].fn = "login" /\ log[i].ev \in { "token_poll", "token_poll_unrecognized" }

\* C23 as stated: the polling loop goes round again only after
\* authorization_pending: an answer that is neither a token nor
\* authorization_pending (another error, or no token and no error) is the
\* last poll of its device flow, and the flow has failed with it.
C23_PollUntilAnswer ==
    \A i \in Events : log[i] = Event("login", "token_poll_unrecognized") =>
        /\ \A j \in Events : j > i => ~Polled(j)
        /\ ~At("login", "poll")

\* C24 as stated: every poll of the running device flow came after a wait of
\* the interval the server advertised, and that interval is a positive number:
\* a flow whose device-code response has an interval of zero, a negative one
\* or one that is no number has made no poll.
C24_PollsWait ==
    polls > 0 =>
        /\ raw_response.kind = "number" /\ raw_response.n > 0
        /\ Len(slept) = polls
        /\ \A k \in 1 .. Len(slept) : slept[k] = raw_response.n /\ slept[k] > 0

\* A bundle with an access token and an ID token.
Complete(bundle) == is_some(bundle.access_token) /\ is_some(bundle.id_token)

\* C25 as stated: a bundle that login or refresh has returned as Ok to
\* try_login or try_refresh holds an access token and an ID token, and so
\* does the returned bundle that has passed the assertion and is to be
\* written.
C25_BundleComplete ==
    /\ (Len(stack) > 0 /\ rv.ok /\ Top.pc \in { "got", "forced", "expired" }) =>
          Complete(rv.val)
    /\ (Len(stack) > 0 /\ rv.ok /\ Top.pc = "write" /\ access_token_response = rv.val) =>
          Complete(access_token_response)

-----------------------------------------------------------------------------
(* with_authn_app_id: the store is re-rooted at a downstream application's  *)
(* directory and authenticated there                                        *)

\* format!("app_{}", app.client_id) joined to the store's directory
AppDir(dir) == Append(dir, "app_client")

\* fs::create_dir_all(dir): an existing directory keeps its files
create_dir_all(files, dir) ==
    IF dir \in DOMAIN files THEN files ELSE files @@ (dir :> EmptyDir)

\* What Client::app(id) gives: no answer, an app without authn, an app.
AppAnswers == { "unreachable", "no_authn", "app" }

\* token_repository.with_authn_app_id(id), on a store not yet re-rooted at an
\* application (whoami calls it once, on the store it has authenticated).
CallWithAuthnAppId ==
    /\ stack = << >>
    /\ auth_dir[Len(auth_dir)] # "app_client"
    /\ Begin("with_authn_app_id")

\* Client::new(..).app(id).await.context("Unable to get app")?;
\* self.with_app(&app).context("Unable to set app")?;  then try_refresh
WithAuthnAppIdStart ==
    /\ At("with_authn_app_id", "start")
    /\ \E answer \in AppAnswers :
          IF answer = "app"
          THEN /\ auth_dir' = AppDir(auth_dir)
               /\ scopes' = { }
               /\ desired_claims' = Claims_default
               /\ fs' = create_dir_all(fs, AppDir(auth_dir))
               /\ Log(<< Event("with_authn_app_id", "with_app"),
                         Event("try_refresh", "enter") >>)
               /\ Enter("try_refresh", "refreshed")
               /\ UNCHANGED rv
          ELSE /\ Log(<< Error("with_authn_app_id", "app",
                               IF answer = "unreachable" THEN "Unable to get app"
                               ELSE "Unable to set app") >>)
               /\ Return(Failure(IF answer = "unreachable" THEN "Unable to get app"
                                 ELSE "Unable to set app"))
               /\ UNCHANGED << auth_dir, scopes, desired_claims, fs >>
    /\ UNCHANGED << claimVars, procVars, tty, flowVars, now, organization_id, force,
                    access_token_response, polls, call, pre >>

\* Mutant: the error of try_refresh is returned.
WithAuthnAppIdRefreshed_returns ==
    /\ At("with_authn_app_id", "refreshed")
    /\ Return(IF rv.ok THEN Success(NoBundle) ELSE rv)
    /\ UNCHANGED << claimVars, procVars, fs, tty, flowVars, now, repoVars, access_token_response,
                    polls, histVars >>

\* match self.try_refresh(..).await.ok() { None => self.force().try_login(..).await?, _ => {} }
WithAuthnAppIdRefreshed ==
    /\ At("with_authn_app_id", "refreshed")
    /\ IF rv.ok
       THEN /\ Return(Success(NoBundle))
            /\ UNCHANGED << force, log >>
       ELSE /\ force' = TRUE
            /\ Log(<< Event("with_authn_app_id", "force"), Event("try_login", "enter") >>)
            /\ Enter("try_login", "logged")
            /\ UNCHANGED rv
    /\ UNCHANGED << claimVars, procVars, fs, tty, flowVars, now, auth_dir, organization_id, scopes,
                    desired_claims, access_token_response, polls, call, pre >>

\* self.force().try_login(..).await?;  Ok(self)
WithAuthnAppIdLoggedIn ==
    /\ At("with_authn_app_id", "logged")
    /\ Return(IF rv.ok THEN Success(NoBundle) ELSE rv)
    /\ UNCHANGED << claimVars, procVars, fs, tty, flowVars, now, repoVars, access_token_response,
                    polls, histVars >>

\* What the store's directory and an application's directory below it hold
\* when the process starts.
AppDiskContents ==
    { d \in DiskContents :
        /\ d["ACCESS_TOKEN"] \in { None, Some("at.T") }
        /\ d["ID_TOKEN"] \in { None, Some("id.k8s.T"), Some("id.plain.far"), Some("garbage") }
        /\ d["REFRESH_TOKEN"] \in { None, Some("rt.1") }
        /\ is_none(d["ACCESS_TOKEN"]) <=> is_none(d["ID_TOKEN"]) }

\* A store made by TokenRepository::new; an application's directory may be
\* there from an earlier run.
InitApp ==
    /\ fs \in { [ d \in { Root } |-> EmptyDir ] }
              \cup { [ d \in { Root, AppDir(Root) } |->
                         IF d = Root THEN EmptyDir ELSE files ] : files \in AppDiskContents }
    /\ now = Clock[2]
    /\ tty \in BOOLEAN
    /\ self_claims = Claims_default
    /\ desired = Claims_default
    /\ assert_result = NotRun
    /\ auth_dir = Root
    /\ organization_id = None
    /\ force = FALSE
    /\ scopes = DEFAULT_SCOPES
    /\ desired_claims = Claims_default
    /\ IdleExec
    /\ call = NoCall
    /\ pre = fs
    /\ log = << >>

NextApp ==
    \/ Force \/ WithScope \/ CallTryLogin \/ CallTryRefresh \/ CallWithAuthnAppId
    \/ WithAuthnAppIdStart \/ WithAuthnAppIdRefreshed \/ WithAuthnAppIdLoggedIn
    \/ TryLoginStart \/ TryLoginRefreshed \/ TryLoginGot \/ TryLoginAssert
    \/ TryLoginWrite
    \/ TryRefreshStart \/ TryRefreshForced \/ TryRefreshExpired \/ TryRefreshGot
    \/ TryRefreshAssert \/ TryRefreshWrite
    \/ LoginStart \/ LoginDiscover \/ LoginSend \/ LoginPoll
    \/ RefreshStart \/ RefreshDiscover \/ RefreshGrant

SpecApp == InitApp /\ [][NextApp]_vars

\* The running call is with_authn_app_id, and its escalation to a forced
\* login is the event at place i.
InApp == call.op = "with_authn_app_id"
Escalated(i) == InApp /\ log[i] = Event("with_authn_app_id", "force")

C29_ForceStays ==
    [][ /\ force => force'
        /\ (force /\ At("try_refresh", "start")) =>
              /\ Len(stack') = Len(stack) + 1
              /\ stack'[Len(stack')].fn = "refresh"
        /\ (force /\ At("try_login", "start")) =>
              /\ TokenFiles(fs', auth_dir) = { }
              /\ Len(stack') = Len(stack) + 1
              /\ stack'[Len(stack')].fn = "login"
      ]_vars

-----------------------------------------------------------------------------
(* with_organization: the store is re-rooted at an organization's directory *)

\* The organization ids of the model in the order a BTreeMap iterates them.
OrgIds == << "org1", "org2" >>

\* Mutant: only the id is matched.
matches_id_only(id, name, organization) == id = organization

\* |org| org.0 == organization.to_string() || org.1 == organization.to_string()
matches(id, name, organization) == id = organization \/ name = organization

\* orgs.into_iter().find(..).map(|o| o.0): the id of the first entry, in key
\* order, whose id or name is the organization asked for.
find(orgs, organization) ==
    LET hits == { i \in 1 .. Len(OrgIds) :
                    /\ OrgIds[i] \in DOMAIN orgs
                    /\ matches(OrgIds[i], orgs[OrgIds[i]], organization) }
    IN  IF hits = { } THEN None
        ELSE Some(OrgIds[CHOOSE i \in hits : \A j \in hits : i <= j])

\* with_organization up to the ? after the search: the organization id, or
\* the error it returns (the messages without their backquotes).
NotLoggedIn == "Please run p6m login before acquiring an organization token."
OrgNotFound == "missing desired organization in access token claims"
organization_id_for(files, dir, organization) ==
    IF ~is_logged_in(files, dir) THEN [ ok |-> FALSE, id |-> "", err |-> NotLoggedIn ]
    ELSE LET id_claims == read_claims(files, dir, "ID_TOKEN") IN
         IF ~id_claims.ok
         THEN [ ok |-> FALSE, id |-> "", err |-> "unable to decode token" ]
         ELSE LET orgs == unwrap(id_claims.val).orgs
                  found == IF is_none(orgs) THEN None ELSE find(unwrap(orgs), organization)
              IN  IF is_none(found) THEN [ ok |-> FALSE, id |-> "", err |-> OrgNotFound ]
                  ELSE [ ok |-> TRUE, id |-> unwrap(found), err |-> "" ]

\* The store configuration with_organization leaves after it has found the
\* organization id: with_organization_id(&organization_id), then
\* with_scope("org:<id>", Claims { org: Some(organization.clone()), .. }).
with_organization(dir, scope_set, des, organization_id_, organization) ==
    [ auth_dir |-> Append(dir, organization_id_),
      organization_id |-> Some(organization_id_),
      scopes |-> scope_set \cup { "org:" \o organization_id_ },
      desired_claims |-> Claims_merge(des, With(Claims_default, "org", organization)) ]

\* The names a caller may give: ids, display names, and a name of no organization.
OrgArgs == { "org1", "org2", "Org One", "Org Two", "Org None" }

\* token_repository.with_organization(&organization), on a store that has no
\* organization yet (whoami and sso call it once, on a new store).  The one
\* event of the call names the organization asked for.
WithOrganization ==
    /\ stack = << >>
    /\ organization_id = None
    /\ \E organization \in OrgArgs :
          LET found == organization_id_for(fs, auth_dir, organization)
              after == with_organization(auth_dir, scopes, desired_claims,
                                         found.id, organization)
          IN  /\ call' = [ Call("with_organization", force, now, NoBundle)
                             EXCEPT !.sr = Some(is_logged_in(fs, auth_dir)) ]
              /\ pre' = fs
              /\ log' = << Error("with_organization", organization, found.err) >>
              /\ rv' = IF found.ok THEN Success(NoBundle) ELSE Failure(found.err)
              /\ IF found.ok
                 THEN /\ auth_dir' = after.auth_dir
                      /\ organization_id' = after.organization_id
                      /\ scopes' = after.scopes
                      /\ desired_claims' = after.desired_claims
                      /\ fs' = create_dir_all(fs, after.auth_dir)
                 ELSE UNCHANGED << auth_dir, organization_id, scopes, desired_claims, fs >>
    /\ UNCHANGED << claimVars, procVars, tty, flowVars, now, force, stack,
                    access_token_response, polls >>

\* What the store's directory holds when the process starts, and the tokens
\* an earlier run left in an organization's directory.
OrgRootContents ==
    { [ k \in TokenKinds |->
          CASE k = "ACCESS_TOKEN" -> a [] k = "ID_TOKEN" -> i [] k = "REFRESH_TOKEN" -> r ] :
        a \in { None, Some("at.far") },
        i \in { None, Some("id.orgs.far"), Some("id.clash.far"), Some("id.plain.far"),
                Some("garbage") },
        r \in { None, Some("rt.1") } }
OrgTokens ==
    [ k \in TokenKinds |->
        CASE k = "ACCESS_TOKEN" -> Some("at.T") [] k = "ID_TOKEN" -> Some("id.org1.far")
          [] k = "REFRESH_TOKEN" -> Some("rt.1") ]

\* A store made by TokenRepository::new; the directory of org2 is there from
\* an earlier run, and that of org1 may be.
InitOrg ==
    /\ fs \in { [ d \in { Root, << "auth", "org2" >> } |->
                    IF d = Root THEN files ELSE OrgTokens ] : files \in OrgRootContents }
              \cup { [ d \in { Root, << "auth", "org1" >>, << "auth", "org2" >> } |->
                         IF d = Root THEN files ELSE OrgTokens ] : files \in OrgRootContents }
    /\ now = Clock[2]
    /\ tty \in BOOLEAN
    /\ self_claims = Claims_default
    /\ desired = Claims_default
    /\ assert_result = NotRun
    /\ auth_dir = Root
    /\ organization_id = None
    /\ force = FALSE
    /\ scopes = DEFAULT_SCOPES
    /\ desired_claims = Claims_default
    /\ IdleExec
    /\ call = NoCall
    /\ pre = fs
    /\ log = << >>

NextOrg ==
    \/ WithOrganization
    \/ Force \/ WithScope \/ CallTryLogin \/ CallTryRefresh
    \/ TryLoginStart \/ TryLoginRefreshed \/ TryLoginGot \/ TryLoginAssert
    \/ TryLoginWrite
    \/ TryRefreshStart \/ TryRefreshForced \/ TryRefreshExpired \/ TryRefreshGot
    \/ TryRefreshAssert \/ TryRefreshWrite
    \/ LoginStart \/ LoginDiscover \/ LoginSend \/ LoginPoll
    \/ RefreshStart \/ RefreshDiscover \/ RefreshGrant

SpecOrg == InitOrg /\ [][NextOrg]_vars

\* The organization memberships of the ID token cached in a directory, when
\* the token decodes and has some.
HasOrgs(files, dir) ==
    /\ is_some(read_token(files, dir, "ID_TOKEN"))
    /\ is_some(decode(unwrap(read_token(files, dir, "ID_TOKEN"))))
    /\ is_some(unwrap(decode(unwrap(read_token(files, dir, "ID_TOKEN")))).orgs)
OrgsOf(files, dir) == unwrap(unwrap(decode(unwrap(read_token(files, dir, "ID_TOKEN")))).orgs)
AllThree(files, dir) == \A k \in TokenKinds : is_some(read_token(files, dir, k))
SomeOrgIs(files, dir, x) ==
    /\ HasOrgs(files, dir)
    /\ \E o \in DOMAIN OrgsOf(files, dir) : o = x \/ OrgsOf(files, dir)[o] = x

\* C26: a step of with_organization(x) succeeds exactly when the store's
\* directory holds all three token files and the cached ID token has an
\* organization whose id or display name is x; it then leaves the id of such
\* an organization as the organization id, the directory <auth_dir>/<id>,
\* existing, as the store's directory, and org:<id> added to the scopes;
\* when it fails, directory, organization id, scopes and desired claims are
\* as before.
C26_WithOrganization ==
    [][ call'.op = "with_organization" =>
          LET x == log'[1].ev IN
          /\ rv'.ok <=> (AllThree(fs, auth_dir) /\ SomeOrgIs(fs, auth_dir, x))
          /\ rv'.ok =>
                /\ is_some(organization_id')
                /\ unwrap(organization_id') \in DOMAIN OrgsOf(fs, auth_dir)
                /\ \/ unwrap(organization_id') = x
                   \/ OrgsOf(fs, auth_dir)[unwrap(organization_id')] = x
                /\ auth_dir' = Append(auth_dir, unwrap(organization_id'))
                /\ auth_dir' \in DOMAIN fs'
                /\ scopes' = scopes \cup { "org:" \o unwrap(organization_id') }
          /\ ~rv'.ok => UNCHANGED << auth_dir, organization_id, scopes, desired_claims >>
      ]_vars

\* C26 happens: the store was logged in, the organization was asked for by
\* its display name, and the store is now rooted at the organization's id.
C26_Witness ==
    /\ call.op = "with_organization" /\ rv.ok
    /\ log[1].ev = "Org One"
    /\ organization_id = Some("org1")
    /\ auth_dir = << "auth", "org1" >>
    /\ "org:org1" \in scopes

\* The store configuration after with_organization(organization) on a store
\* with the given directory, scopes and desired claims: unchanged on an error.
Configuration(files, dir, scope_set, des, organization) ==
    LET found == organization_id_for(files, dir, organization) IN
    IF found.ok
    THEN with_organization(dir, scope_set, des, found.id, organization)
    ELSE [ auth_dir |-> dir, organization_id |-> None, scopes |-> scope_set,
           desired_claims |-> des ]

\* C27 as stated: when a step of with_organization(x) succeeds, then for each
\* organization of the cached ID token that x names by its id or by its
\* display name, the configuration the step leaves (directory, organization
\* id, scopes, desired claims) is the one that naming the organization the
\* other way would have left.
C27_SameByIdOrName ==
    [][ (call'.op = "with_organization" /\ rv'.ok) =>
          LET x == log'[1].ev
              orgs == OrgsOf(fs, auth_dir)
          IN  \A id \in DOMAIN orgs : (x = id \/ x = orgs[id]) =>
                 LET other == IF x = id THEN orgs[id] ELSE id
                     c == Configuration(fs, auth_dir, scopes, desired_claims, other)
                 IN  /\ auth_dir' = c.auth_dir
                     /\ organization_id' = c.organization_id
                     /\ scopes' = c.scopes
                     /\ desired_claims' = c.desired_claims
      ]_vars

\* A directory of an organization (or below one) other than the one the store
\* is configured for; every such directory for a store without organization.
Foreign(d) == Len(d) >= 2 /\ organization_id # Some(d[2])
SameTokens(d) == \A k \in TokenKinds : read_token(fs', d, k) = read_token(fs, d, k)

\* C28, as the code has it: no step of a store creates, changes or deletes a
\* token file in a directory of an organization the store is not configured
\* for, but one: the clear() of a forced try_login on a store without
\* organization removes the whole auth directory, and every organization's
\* directory with it.
C28_Isolation ==
    [][ \A d \in DOMAIN fs \cup DOMAIN fs' : Foreign(d) =>
          \/ SameTokens(d)
          \/ /\ organization_id = None /\ force /\ At("try_login", "start")
             /\ d \notin DOMAIN fs'
      ]_vars

\* C28 happens: a store configured for org1 has been forced to log in, its
\* directory was cleared and holds the new tokens, and org2's files are as
\* they were.
C28_Witness ==
    /\ organization_id = Some("org1")
    /\ call.op = "try_login" /\ call.force /\ Returned /\ rv.ok
    /\ fs[<< "auth", "org1" >>]["ID_TOKEN"] = Some("id.org1.far")
    /\ fs[<< "auth", "org1" >>]["ACCESS_TOKEN"] = Some("at.far")
    /\ << "auth", "org2" >> \in DOMAIN fs
    /\ fs[<< "auth", "org2" >>] = OrgTokens

\* C28 as stated: no step of a store creates, changes or deletes a token file
\* in a directory of an organization the store is not configured for.
C28_Original ==
    [][ \A d \in DOMAIN fs \cup DOMAIN fs' : Foreign(d) => SameTokens(d) ]_vars

-----------------------------------------------------------------------------
(* Two invocations of the CLI in write_tokens on the same auth directory    *)

\* The files in the order write_tokens writes them.
TokenOrder == << "ACCESS_TOKEN", "ID_TOKEN", "REFRESH_TOKEN" >>

\* The two processes.
Invocations == { 1, 2 }

\* The bundles the two invocations have obtained.
RaceBundles ==
    { Bundle(Some("at.T"), Some("id.k8s.T"), Some("rt.1")),
      Bundle(Some("at.far"), Some("id.k8s.far"), Some("rt.2")),
      Bundle(Some("at.far"), Some("id.plain.far"), None) }

\* Mutant: a writer waits while the other invocation is inside write_tokens.
may_write_locked(p) ==
    \A q \in Invocations \ { p } : writers[q].written \in { 0, Len(TokenOrder) }

\* write_tokens takes no lock and no file is opened exclusively: an
\* invocation's next fs::write never waits for another invocation.
may_write(p) == TRUE

\* One fs::write of invocation p's write_tokens: the next file in order,
\* written when the bundle has that token.
WriteTokenBy(p) ==
    /\ writers # << >>
    /\ writers[p].written < Len(TokenOrder)
    /\ may_write(p)
    /\ LET token_type == TokenOrder[writers[p].written + 1] IN
       fs' = write_token(fs, auth_dir, token_type, writers[p].tokens[FieldOf(token_type)])
    /\ writers' = [ writers EXCEPT ![p].written = @ + 1 ]
    /\ UNCHANGED << claimVars, tty, flowVars, now, repoVars, execVars, result, stderr,
                    exit_status, histVars >>

WriteToken == \E p \in Invocations : WriteTokenBy(p)

\* Two invocations that have each obtained a bundle and are about to write
\* it, over what earlier runs left in the directory.
InitRace ==
    /\ fs \in { [ d \in { Root } |-> files ] :
                  files \in { EmptyDir } \cup { d \in DiskContents : d["REFRESH_TOKEN"] = Some("") } }
    /\ writers \in [ Invocations -> { [ tokens |-> b, written |-> 0 ] : b \in RaceBundles } ]
    /\ now = Clock[1]
    /\ tty = TRUE
    /\ self_claims = Claims_default
    /\ desired = Claims_default
    /\ assert_result = NotRun
    /\ auth_dir = Root
    /\ organization_id = None
    /\ force = FALSE
    /\ scopes = DEFAULT_SCOPES
    /\ desired_claims = Claims_default
    /\ stack = << >>
    /\ rv = NoResult
    /\ access_token_response = NoBundle
    /\ polls = 0
    /\ IdleFlow
    /\ result = << >>
    /\ stderr = << >>
    /\ exit_status = None
    /\ call = NoCall
    /\ pre = fs
    /\ log = << >>

NextRace == WriteToken

SpecRace == InitRace /\ [][NextRace]_vars

\* Both invocations have left write_tokens.
BothWritten == \A p \in Invocations : writers[p].written = Len(TokenOrder)

\* The directory is as invocation p's write_tokens alone would leave it.
AsWrittenBy(p) == fs = write_tokens(pre, auth_dir, writers[p].tokens)

\* C30: write_tokens is not serialized: an invocation that has a file left
\* to write can always write it, wherever the other invocation is in its own
\* write_tokens; when both have ended, each file of a kind that either bundle
\* holds is the token of one of the two bundles (the three of them need not
\* be of the same bundle).
C30_NoLock ==
    /\ \A p \in Invocations : writers[p].written < Len(TokenOrder) => ENABLED WriteTokenBy(p)
    /\ BothWritten =>
          \A k \in TokenKinds :
              \/ \E p \in Invocations :
                    /\ is_some(writers[p].tokens[FieldOf(k)])
                    /\ read_token(fs, auth_dir, k) = writers[p].tokens[FieldOf(k)]
              \/ /\ \A p \in Invocations : is_none(writers[p].tokens[FieldOf(k)])
                 /\ read_token(fs, auth_dir, k) = read_token(pre, auth_dir, k)

\* C30 happens: two invocations with complete bundles have both ended, the
\* access token on disk is the second's and the ID token the first's: the
\* directory is as neither would have left it alone.
C30_Witness ==
    /\ writers # << >> /\ BothWritten
    /\ \A p \in Invocations : Complete(writers[p].tokens) /\ ~AsWrittenBy(p)
    /\ read_token(fs, auth_dir, "ACCESS_TOKEN") = writers[2].tokens.access_token
    /\ read_token(fs, auth_dir, "ID_TOKEN") = writers[1].tokens.id_token
    /\ writers[1].tokens.id_token # writers[2].tokens.id_token
    /\ writers[1].tokens.access_token # writers[2].tokens.access_token

-----------------------------------------------------------------------------
(* main: the environment is initialised, the subcommand's handler runs, and *)
(* its error, if any, is reported                                           *)

\* anyhow::Result<()> of a command handler: for an error, the messages of
\* e.chain(), the outermost context first and the root cause last.
CommandOk == [ ok |-> TRUE, chain |-> << >> ]
CommandErr(chain) == [ ok |-> FALSE, chain |-> chain ]

\* Messages of the errors the handlers build.
Messages == { "Unknown organizatization", "unable to exchange device code for tokens",
              "User denied request.", "No command given" }
Chains == SeqsUpTo(Messages, MaxChain) \ { << >> }

\* e.chain().map(|e| e.to_string()).collect::<Vec<String>>().join(": ")
RECURSIVE join(_, _)
join(strings, sep) ==
    IF strings = << >> THEN ""
    ELSE IF Len(strings) = 1 THEN strings[1]
         ELSE strings[1] \o sep \o join(Tail(strings), sep)

\* The process ends by main returning: main returns (), and the status of a
\* process whose main returns () is 0.
MainReturns ==
    /\ stack' = << >>
    /\ exit_status' = Some(0)

InitMain ==
    /\ fs = IdleFs
    /\ tty = TRUE
    /\ now = 0
    /\ self_claims = Claims_default
    /\ desired = Claims_default
    /\ assert_result = NotRun
    /\ IdleRepo
    /\ stack = << Frame("main", "init") >>
    /\ rv = NoResult
    /\ access_token_response = NoBundle
    /\ polls = 0
    /\ IdleFlow
    /\ IdleProc
    /\ IdleHist

\* match P6mEnvironment::init(&matches) { Ok(environment) => environment,
\*     Err(e) => { error!("{}", e); return; } }
MainInit ==
    /\ At("main", "init")
    /\ \/ /\ Goto("dispatch")
          /\ UNCHANGED << stderr, exit_status >>
       \/ \E e \in Chains :
             /\ stderr' = Append(stderr, e[1])
             /\ MainReturns
    /\ UNCHANGED << claimVars, fs, tty, flowVars, now, repoVars, rv, access_token_response,
                    polls, result, writers, histVars >>

\* let result = match matches.subcommand() { .. }: the handler has run
MainDispatch ==
    /\ At("main", "dispatch")
    /\ result' \in { CommandOk } \cup { CommandErr(chain) : chain \in Chains }
    /\ Goto("report")
    /\ UNCHANGED << claimVars, fs, tty, flowVars, now, repoVars, rv, access_token_response,
                    polls, stderr, exit_status, writers, histVars >>

\* if let Err(e) = result { error!("{}", chain joined by ": ") }, and main ends
MainReport ==
    /\ At("main", "report")
    /\ stderr' = IF result.ok THEN stderr
                 ELSE Append(stderr, join(result.chain, ": "))
    /\ MainReturns
    /\ UNCHANGED << claimVars, fs, tty, flowVars, now, repoVars, rv, access_token_response,
                    polls, result, writers, histVars >>

NextMain == MainInit \/ MainDispatch \/ MainReport

SpecMain == InitMain /\ [][NextMain]_vars

\* C14 as stated: when the handler returned an error, the process has printed
\* its causal chain joined by ": " and ends with a status other than 0; after
\* a handler ran, the status 0 is reached only when it succeeded.
C14_ExitStatus ==
    (is_some(exit_status) /\ result # << >>) =>
        /\ ~result.ok =>
              /\ stderr = << join(result.chain, ": ") >>
              /\ unwrap(exit_status) # 0
        /\ unwrap(exit_status) = 0 => result.ok

=============================================================================
